---- MODULE Spec2Model ----
(***************************************************************************)
(* A model of the virtual-filesystem adapters of chronicleprotocol/go-lib  *)
(* (package fsutil) and of the helpers they are built on (retry, errutil,  *)
(* sliceutil).                                                             *)
(*                                                                         *)
(*   SpecRetry  - retryFS over an arbitrary inner filesystem, with the     *)
(*                retry.Try loop taken step by step and a context that     *)
(*                may end at any moment.                                   *)
(*   SpecChain  - chainFS over a sequence of inner filesystems.            *)
(*   SpecCache  - cacheFS with concurrent callers over one cache           *)
(*                directory.                                               *)
(*   SpecProto  - two cacheProto that share one cache directory.           *)
(*   SpecSum    - checksumFS in both verify modes.                         *)
(*   SpecIpfs   - ipfsFS over mutually untrusted gateways.                 *)
(*   SpecGzip   - gzipFS with its extension check and read limit.          *)
(***************************************************************************)
EXTENDS Integers, Sequences, FiniteSets, TLC

(***************************************************************************)
(* Bounds of the model.                                                    *)
(***************************************************************************)
MaxAttempts == 3
MaxCalls == 4
MaxFs == 2
MaxChainCalls == 2
NumCallers == 2
MaxCacheCalls == 3

(***************************************************************************)
(* Error values.  A Go error is a tree: a sentinel (leaf), an error        *)
(* wrapped by fmt.Errorf("prefix: %w", err), an *fs.PathError around a     *)
(* cause, or an errutil.MultiError holding a list of errors.  NoErr is the *)
(* nil error.                                                              *)
(***************************************************************************)
NoErr == [tag |-> "nil", kind |-> "", sub |-> <<>>]
Leaf(k) == [tag |-> "leaf", kind |-> k, sub |-> <<>>]
Wrap(prefix, e) == [tag |-> "wrap", kind |-> prefix, sub |-> <<e>>]
PathError(op, e) == [tag |-> "patherr", kind |-> op, sub |-> <<e>>]
MultiError(es) == [tag |-> "multi", kind |-> "", sub |-> es]

ErrNotExist == Leaf("ErrNotExist")
ErrPermission == Leaf("ErrPermission")
ErrBadPattern == Leaf("ErrBadPattern")
ErrInvalid == Leaf("ErrInvalid")
ErrUnexpectedEOF == Leaf("ErrUnexpectedEOF")
Canceled == Leaf("Canceled")
DeadlineExceeded == Leaf("DeadlineExceeded")
errTransient == Leaf("transient")
errChecksumFSMismatch == Leaf("fsutil.checksumFS: checksum mismatch")

\* errors.Is(err, target) for a sentinel target: follows Unwrap() error and
\* Unwrap() []error through the whole tree.
RECURSIVE ErrorsIs(_, _)
ErrorsIs(err, target) ==
  IF err.tag = "nil" THEN FALSE
  ELSE IF err = target THEN TRUE
  ELSE \E i \in 1..Len(err.sub) : ErrorsIs(err.sub[i], target)

\* errors.As(err, &pathErr) with pathErr of type *fs.PathError.
RECURSIVE isPathError(_)
isPathError(err) ==
  IF err.tag = "nil" THEN FALSE
  ELSE IF err.tag = "patherr" THEN TRUE
  ELSE \E i \in 1..Len(err.sub) : isPathError(err.sub[i])

errInvalidPathFn(operation) == PathError(operation, ErrInvalid)
errRetryFSFn(err) == Wrap("fsutil.retryFS", err)
errGzipFSFn(err) == Wrap("fsutil.gzipFS", err)

(***************************************************************************)
(* Names.  A name is a sequence of one-character strings.                  *)
(***************************************************************************)
NameA == <<"a">>
NameAbsA == <<"/", "a">>
NameOpenBracket == <<"[">>
NameDirStar == <<"a", "/", "*">>
NameDotDot == <<".", ".">>
Names == {NameA, NameAbsA, NameOpenBracket, NameDirStar, NameDotDot}

\* The index of the first "/" of name at or after position i, or
\* Len(name)+1 when there is none.
RECURSIVE SlashFrom(_, _)
SlashFrom(name, i) ==
  IF i > Len(name) THEN Len(name) + 1
  ELSE IF name[i] = "/" THEN i
  ELSE SlashFrom(name, i + 1)

\* io/fs.ValidPath applied to the suffix of name that starts at position i.
RECURSIVE ValidElems(_, _)
ValidElems(name, i) ==
  LET j == SlashFrom(name, i)
      elem == SubSeq(name, i, j - 1)
  IN IF elem = <<>> \/ elem = <<".">> \/ elem = <<".", ".">> THEN FALSE
     ELSE IF j > Len(name) THEN TRUE
     ELSE ValidElems(name, j + 1)

FsValidPath(name) == name = <<".">> \/ ValidElems(name, 1)

\* The syntax check path.Match(pattern, "") performs, for patterns without
\* '\\', '-' and '^': a '[' opens a class that needs at least one member
\* and a closing ']'.  inClass is 0 outside a class, 1 right after '[' and
\* 2 once the class has a member.
RECURSIVE PatternOK(_, _, _)
PatternOK(p, i, inClass) ==
  IF i > Len(p) THEN inClass = 0
  ELSE IF inClass = 0 THEN PatternOK(p, i + 1, IF p[i] = "[" THEN 1 ELSE 0)
  ELSE IF inClass = 1 THEN (p[i] # "]" /\ PatternOK(p, i + 1, 2))
  ELSE PatternOK(p, i + 1, IF p[i] = "]" THEN 0 ELSE 2)

validPath(operation, path) ==
  IF FsValidPath(path) THEN NoErr ELSE errInvalidPathFn(operation)

validPattern(operation, pattern) ==
  IF PatternOK(pattern, 1, 0) THEN NoErr ELSE errInvalidPathFn(operation)

(***************************************************************************)
(* Results.  An operation returns a pair (value, error); Nil is Go's nil   *)
(* value (nil file, nil slice).                                            *)
(***************************************************************************)
Nil == "nil"
Res(v, e) == [val |-> v, err |-> e]

VARIABLES
  ctxErr,      \* ctx.Err(): NoErr until the context ends
  rAttempts,   \* retryFS.attempts
  rOp,         \* the retryFS method being called
  rName,       \* its argument
  rPc,         \* position of the call inside retry.Try
  rI,          \* the loop counter i of retry.Try
  rRes,        \* (res1, res2) of retry.Try2
  rCalls,      \* number of calls of the inner filesystem's method
  rHist,       \* what each of those calls returned, in order
  rDelays,     \* number of delays awaited
  cN,          \* len(chainFS.fs)
  cInner,      \* what inner filesystem i answers to the call's argument
  cRand,       \* chainFS.rand
  cOp,         \* the chainFS method being called
  cPc,         \* position of the call
  cPerm,       \* the slice c.iter() returned for this call
  cPos,        \* position of the range loop in cPerm
  cErr,        \* the local err of the method
  cS,          \* the local slice s of Glob and ReadDir
  cRes,        \* what the call returned
  cConsulted,  \* the inner filesystems consulted by this call, in order
  cCallNo,     \* number of calls started
  kDir,        \* whether the cache directory c.dir exists
  kDisk,       \* the cache entry of the path in the cache directory
  kInner,      \* the content the inner filesystem holds for the path now
  kPc,         \* position of each caller inside its cacheFS call
  kOp,         \* the cacheFS method each caller runs
  kName,       \* its argument
  kBuf,        \* the bytes b each caller read from the inner filesystem
  kRes,        \* what each caller's call returned
  kMiss,       \* whether the caller's current call called the inner filesystem
  kLater,      \* whether the caller's current call started after a successful one
  kFirst,      \* the content returned by the first successful call
  kRace,       \* whether a cache miss was in progress when that call returned
  kCallNo,     \* number of calls started
  \* two cacheProto over one cache directory
  pBackend,    \* the content each host's backend serves for each path
  pDisk,       \* the cache directory: entry of each cache path
  pHost,       \* the protocol (host) of the last call, 0 before the first
  pName,       \* the path of the last call
  pRes,        \* what the last call returned
  \* checksumFS
  sMode,       \* the verify mode of the checksumFS
  sPc,         \* "idle", "opened" (Open returned a file) or "done"
  sOp,         \* the operation of the last call
  sName,       \* the name given to it
  sInner,      \* what the inner filesystem answers to Open
  sPassed,     \* the name passed to the inner filesystem's Open
  sFile,       \* the file returned by Open
  sRes,        \* the result of the call
  sRead,       \* what reading the returned file to its end gave the caller
  \* ipfsFS
  gGw,         \* what each gateway answered to the last call
  gPerm,       \* the slice c.iter() returned for the last call
  gName,       \* the name given to the last call
  gPc,         \* "idle", "opened" (Open returned a file) or "done"
  gFile,       \* the file returned by Open
  gRes,        \* the result of Open
  gRead,       \* what reading the returned file to its end gave the caller
  \* gzipFS
  zCheckExt,   \* whether the extension is checked
  zExts,       \* the configured extensions
  zLimit,      \* the read limit
  zPc,         \* "idle", "opened" (Open returned a file) or "done"
  zOp,         \* the operation of the last call
  zName,       \* the name given to it
  zInner,      \* the bytes of the inner file and how its reads end
  zFile,       \* the file returned by Open
  zRes,        \* the result of the call
  zRead,       \* what reading the returned file to its end gave the caller
  zOpens,      \* how many times the call opened the inner file
  \* the protocols' FileSystem, ParseURI and httpFS.Open
  uProto,      \* the protocol: "file", "http", "ipfs", "fs" or "chain"
  uVia,        \* "FileSystem" (called with a URL) or "ParseURI" (with a string)
  uStr,        \* the string given to ParseURI
  uUri,        \* the URL given to the protocol's FileSystem
  uStatus,     \* what the HTTP server answers: a status code, 0 for no response
  uPc,         \* "idle", "resolved" (FileSystem returned a path) or "done"
  uBase,       \* the base URL of the httpFS that FileSystem returned
  uPath,       \* the path that FileSystem returned
  uFsErr,      \* the error that FileSystem or ParseURI returned
  uName,       \* the name given to httpFS.Open
  uUrl,        \* the URL of the request httpFS.Open made
  uRes,        \* what httpFS.Open returned
  \* mux
  mPs,         \* m.ps: what the factory of each scheme does, "none" if not registered
  mNil,        \* whether FileSystem is called with a nil URL
  mUri,        \* the URL given to FileSystem
  mPc,         \* "idle" or "done"
  mCalls,      \* the schemes whose factory was invoked, in order
  mRes,        \* what FileSystem returned
  mCaller,     \* the caller's URL (the value uri points to): mUri before the call
  \* a stack of adapters over one inner filesystem
  wInner,      \* the error of the innermost filesystem's Open
  wLayers,     \* the adapters stacked over it, innermost first
  wErr,        \* the error of the outermost adapter's Open
  \* ReadFile and Open of one adapter over the same inner filesystems
  eAdapter,    \* the adapter: "chain", "retry", "cache", "gzip" or "checksum"
  eCfg,        \* its configuration and the name given to both calls
  eInners,     \* the inner filesystems (for retryFS: what each attempt finds)
  eDone,       \* the calls made so far
  eOpen,       \* the outcome of Open, reading the file to its end and Close
  eReadFile,   \* the outcome of ReadFile
  \* retry.Try and its helpers with an arbitrary f
  tFn,         \* the helper called: "Try", "Try1", "Try2", "TryErr", "Try1Err", "Try2Err"
  tAttempts,   \* its argument attempts
  tDelay,      \* its argument delay, in ticks
  tCtx,        \* ctx.Err(): NoErr until the context ends
  tPc,         \* position of the call: "loop", "call", "delay", "next", "after", "done"
  tI,          \* the loop counter i
  tRunning,    \* number of calls of f in progress
  tHist,       \* what each call of f returned, in order
  tTimer,      \* ticks left until the timer of the current wait fires
  tDelays,     \* number of waits that were made
  tEndI,       \* the loop counter when the context ended
  tEndPc,      \* the position of the call when the context ended
  tOk,         \* what Try returned
  tRet,        \* what the helper returned
  \* Stat, Glob and ReadDir of checksumFS
  fOp,         \* the checksumFS method called: "Stat", "Glob" or "ReadDir"
  fName,       \* the name or pattern given to it
  fInner,      \* what the inner filesystem answers for it
  fPc,         \* position of the call: "idle", "helper", "method", "overflow" or "done"
  fDepth,      \* number of frames of the checksumFS method on the stack
  fRes,        \* what the call returned
  \* httpFS.Open and the response body
  bName,       \* the name given to httpFS.Open
  bStatus,     \* what the HTTP server answers: a status code, 0 for no response
  bPc,         \* position: "idle", "returned" (Open returned) or "closed" (the caller closed the file)
  bBody,       \* the response body: "none", "open" or "closed"
  bRes,        \* what Open returned
  \* the inner files that checksumFS.Open and gzipFS.Open open
  hAdapter,    \* the adapter: "checksum" or "gzip"
  hCfg,        \* its configuration and the name given to Open
  hInner,      \* what the inner filesystem holds for the name
  hPc,         \* position: "idle", "returned" (Open returned) or "closed" (the caller closed the file)
  hFiles,      \* the inner files opened by the call, in order: "open" or "closed"
  hHeld,       \* the inner files that closing the returned file closes
  hErr         \* the error Open returned

retryVars == <<ctxErr, rAttempts, rOp, rName, rPc, rI, rRes, rCalls, rHist, rDelays>>

chainVars == <<cN, cInner, cRand, cOp, cPc, cPerm, cPos, cErr, cS, cRes, cConsulted, cCallNo>>

cacheVars == <<kDir, kDisk, kInner, kPc, kOp, kName, kBuf, kRes, kMiss, kLater, kFirst, kRace, kCallNo>>

protoVars == <<pBackend, pDisk, pHost, pName, pRes>>

sumVars == <<sMode, sPc, sOp, sName, sInner, sPassed, sFile, sRes, sRead>>

ipfsVars == <<gGw, gPerm, gName, gPc, gFile, gRes, gRead>>

gzipVars == <<zCheckExt, zExts, zLimit, zPc, zOp, zName, zInner, zFile, zRes, zRead, zOpens>>

uriVars == <<uProto, uVia, uStr, uUri, uStatus, uPc, uBase, uPath, uFsErr, uName, uUrl, uRes>>

muxVars == <<mPs, mNil, mUri, mPc, mCalls, mRes, mCaller>>

stackVars == <<wInner, wLayers, wErr>>

equivVars == <<eAdapter, eCfg, eInners, eDone, eOpen, eReadFile>>

tryVars == <<tFn, tAttempts, tDelay, tCtx, tPc, tI, tRunning, tHist, tTimer, tDelays, tEndI, tEndPc, tOk, tRet>>

fwdVars == <<fOp, fName, fInner, fPc, fDepth, fRes>>

bodyVars == <<bName, bStatus, bPc, bBody, bRes>>

handlesVars == <<hAdapter, hCfg, hInner, hPc, hFiles, hHeld, hErr>>

moreVars == <<uriVars, muxVars, stackVars, equivVars, tryVars, fwdVars, bodyVars, handlesVars>>

\* The components added to the first three, and the first three.
extVars == <<protoVars, sumVars, ipfsVars, gzipVars, moreVars>>

baseVars == <<retryVars, chainVars, cacheVars>>

vars == <<baseVars, extVars>>

\* What the actions of each added component leave alone.
protoOthers == <<baseVars, sumVars, ipfsVars, gzipVars, moreVars>>
sumOthers == <<baseVars, protoVars, ipfsVars, gzipVars, moreVars>>
ipfsOthers == <<baseVars, protoVars, sumVars, gzipVars, moreVars>>
gzipOthers == <<baseVars, protoVars, sumVars, ipfsVars, moreVars>>
uriOthers == <<baseVars, protoVars, sumVars, ipfsVars, gzipVars, muxVars, stackVars, equivVars, tryVars, fwdVars, bodyVars, handlesVars>>
muxOthers == <<baseVars, protoVars, sumVars, ipfsVars, gzipVars, uriVars, stackVars, equivVars, tryVars, fwdVars, bodyVars, handlesVars>>
stackOthers == <<baseVars, protoVars, sumVars, ipfsVars, gzipVars, uriVars, muxVars, equivVars, tryVars, fwdVars, bodyVars, handlesVars>>
equivOthers == <<baseVars, protoVars, sumVars, ipfsVars, gzipVars, uriVars, muxVars, stackVars, tryVars, fwdVars, bodyVars, handlesVars>>
tryOthers == <<baseVars, protoVars, sumVars, ipfsVars, gzipVars, uriVars, muxVars, stackVars, equivVars, fwdVars, bodyVars, handlesVars>>
fwdOthers == <<baseVars, protoVars, sumVars, ipfsVars, gzipVars, uriVars, muxVars, stackVars, equivVars, tryVars, bodyVars, handlesVars>>
bodyOthers == <<baseVars, protoVars, sumVars, ipfsVars, gzipVars, uriVars, muxVars, stackVars, equivVars, tryVars, fwdVars, handlesVars>>
handlesOthers == <<baseVars, protoVars, sumVars, ipfsVars, gzipVars, uriVars, muxVars, stackVars, equivVars, tryVars, fwdVars, bodyVars>>

(***************************************************************************)
(* retryFS (fsutil/retry.go) over retry.Try2 / retry.Try (retry/retry.go). *)
(***************************************************************************)
RetryOps == {"Open", "Glob", "Stat", "ReadFile", "ReadDir"}

OpLabel(op) ==
  CASE op = "Open" -> "open"
    [] op = "Glob" -> "glob"
    [] op = "Stat" -> "stat"
    [] op = "ReadFile" -> "readFile"
    [] op = "ReadDir" -> "readDir"

\* What an inner filesystem may answer.  On failure Go allows a non-nil
\* value next to the error (fs.ReadFile returns the bytes read so far).
InnerErrs ==
  { errTransient,
    ErrNotExist,
    PathError("open", ErrNotExist),
    ErrPermission,
    ErrBadPattern,
    PathError("open", ErrInvalid),
    PathError("open", errTransient),
    errChecksumFSMismatch,
    errGzipFSFn(ErrUnexpectedEOF) }

InnerResults(ctx) ==
  {Res("r1", NoErr)}
    \cup {Res(Nil, e) : e \in InnerErrs}
    \cup {Res("partial", errTransient)}
    \cup (IF ctx = NoErr THEN {} ELSE {Res(Nil, ctx)})

\* isRetryable without the *fs.PathError test.
isRetryableNoPathError(err) ==
  /\ ~ErrorsIs(err, ErrNotExist)
  /\ ~ErrorsIs(err, ErrPermission)
  /\ ~ErrorsIs(err, ErrBadPattern)

\* isRetryable that also treats the integrity errors as permanent.
isRetryableIntegrityPermanent(err) ==
  /\ ~ErrorsIs(err, ErrNotExist)
  /\ ~ErrorsIs(err, ErrPermission)
  /\ ~ErrorsIs(err, ErrBadPattern)
  /\ ~isPathError(err)
  /\ ~ErrorsIs(err, errChecksumFSMismatch)
  /\ ~ErrorsIs(err, ErrUnexpectedEOF)

isRetryable(err) ==
  /\ ~ErrorsIs(err, ErrNotExist)
  /\ ~ErrorsIs(err, ErrPermission)
  /\ ~ErrorsIs(err, ErrBadPattern)
  /\ ~isPathError(err)

\* The argument check at the head of each retryFS method.
RetryValid(op, name) ==
  IF op = "Glob" THEN validPattern("glob", name) ELSE validPath(OpLabel(op), name)

\* The closure retryFS hands to retry.Try2: the triple it returns for the
\* inner result r.
RetryFn(r) ==
  IF r.err = NoErr THEN [res |-> Res(r.val, NoErr), stop |-> TRUE]
  ELSE IF ~isRetryable(r.err) THEN [res |-> Res(Nil, errRetryFSFn(r.err)), stop |-> TRUE]
  ELSE [res |-> Res(r.val, errRetryFSFn(r.err)), stop |-> FALSE]

\* The loop condition with an off-by-one bound.
TryLoopCondOffByOne(attempts, i) == attempts < 0 \/ i <= attempts

\* retry.Try's loop condition.
TryLoopCond(attempts, i) == attempts < 0 \/ i < attempts

\* retry.Try's condition for waiting after a failed attempt.
TryDelayCond(attempts, i) == attempts < 0 \/ i < attempts

\* The other components when a specification does not exercise them.
ChainUnused ==
  /\ cN = 0
  /\ cInner = <<>>
  /\ cRand = FALSE
  /\ cOp = "Open"
  /\ cPc = "done"
  /\ cPerm = <<>>
  /\ cPos = 1
  /\ cErr = NoErr
  /\ cS = <<>>
  /\ cRes = Res(Nil, NoErr)
  /\ cConsulted = <<>>
  /\ cCallNo = 0

CacheUnused ==
  /\ kDir = TRUE
  /\ kDisk = [exists |-> FALSE, data |-> <<>>]
  /\ kInner = <<>>
  /\ kPc = <<>>
  /\ kOp = <<>>
  /\ kName = <<>>
  /\ kBuf = <<>>
  /\ kRes = <<>>
  /\ kMiss = <<>>
  /\ kLater = <<>>
  /\ kFirst = [set |-> FALSE, data |-> <<>>]
  /\ kRace = FALSE
  /\ kCallNo = 0

RetryUnused ==
  /\ ctxErr = NoErr
  /\ rAttempts = 0
  /\ rOp = "Open"
  /\ rName = <<"a">>
  /\ rPc = "done"
  /\ rI = 0
  /\ rRes = Res(Nil, NoErr)
  /\ rCalls = 0
  /\ rHist = <<>>
  /\ rDelays = 0

ProtoUnused ==
  /\ pBackend = <<>>
  /\ pDisk = <<>>
  /\ pHost = 0
  /\ pName = <<>>
  /\ pRes = Res(<<>>, NoErr)

SumUnused ==
  /\ sMode = "AfterRead"
  /\ sPc = "idle"
  /\ sOp = "Open"
  /\ sName = [path |-> <<"a">>, q |-> FALSE, bad |-> FALSE, pairs |-> <<>>]
  /\ sInner = [err |-> NoErr, data |-> <<>>, shape |-> "eofAlone", statErr |-> FALSE]
  /\ sPassed = [path |-> <<"a">>, q |-> FALSE, bad |-> FALSE, pairs |-> <<>>]
  /\ sFile = [open |-> FALSE, reads |-> <<>>]
  /\ sRes = Res(<<>>, NoErr)
  /\ sRead = Res(<<>>, NoErr)

IpfsUnused ==
  /\ gGw = <<>>
  /\ gPerm = <<>>
  /\ gName = [path |-> <<"a">>, q |-> FALSE, bad |-> FALSE, pairs |-> <<>>]
  /\ gPc = "idle"
  /\ gFile = [open |-> FALSE, reads |-> <<>>]
  /\ gRes = Res(<<>>, NoErr)
  /\ gRead = Res(<<>>, NoErr)

GzipUnused ==
  /\ zCheckExt = TRUE
  /\ zExts = <<>>
  /\ zLimit = 0
  /\ zPc = "idle"
  /\ zOp = "Open"
  /\ zName = <<"a">>
  /\ zInner = [bytes |-> <<>>, shape |-> "eofAlone"]
  /\ zFile = [open |-> FALSE, reads |-> <<>>]
  /\ zRes = Res(<<>>, NoErr)
  /\ zRead = Res(<<>>, NoErr)
  /\ zOpens = 0

UriUnused ==
  /\ uProto = "file"
  /\ uVia = "FileSystem"
  /\ uStr = <<>>
  /\ uUri = [scheme |-> "", host |-> <<>>, path |-> <<>>, forceQuery |-> FALSE,
             rawQuery |-> <<>>, fragment |-> <<>>]
  /\ uStatus = 0
  /\ uPc = "idle"
  /\ uBase = [scheme |-> "", host |-> <<>>, path |-> <<>>, forceQuery |-> FALSE,
              rawQuery |-> <<>>, fragment |-> <<>>]
  /\ uPath = <<>>
  /\ uFsErr = NoErr
  /\ uName = <<>>
  /\ uUrl = [scheme |-> "", host |-> <<>>, path |-> <<>>, forceQuery |-> FALSE,
             rawQuery |-> <<>>, fragment |-> <<>>]
  /\ uRes = [file |-> FALSE, err |-> NoErr]

MuxUnused ==
  /\ mPs = <<>>
  /\ mNil = FALSE
  /\ mUri = [scheme |-> "", host |-> <<>>, path |-> <<>>, forceQuery |-> FALSE,
             rawQuery |-> <<>>, fragment |-> <<>>]
  /\ mPc = "idle"
  /\ mCalls = <<>>
  /\ mRes = [base |-> mUri, path |-> <<>>, err |-> NoErr]
  /\ mCaller = mUri

StackUnused ==
  /\ wInner = NoErr
  /\ wLayers = <<>>
  /\ wErr = NoErr

EquivUnused ==
  /\ eAdapter = "chain"
  /\ eCfg = <<>>
  /\ eInners = <<>>
  /\ eDone = {}
  /\ eOpen = Res(<<>>, NoErr)
  /\ eReadFile = Res(<<>>, NoErr)

TryUnused ==
  /\ tFn = "Try"
  /\ tAttempts = 0
  /\ tDelay = 0
  /\ tCtx = NoErr
  /\ tPc = "done"
  /\ tI = 0
  /\ tRunning = 0
  /\ tHist = <<>>
  /\ tTimer = 0
  /\ tDelays = 0
  /\ tEndI = -1
  /\ tEndPc = "before"
  /\ tOk = FALSE
  /\ tRet = [ok |-> FALSE, val |-> "nil", err |-> NoErr]

FwdUnused ==
  /\ fOp = "Stat"
  /\ fName = <<>>
  /\ fInner = Res(<<>>, NoErr)
  /\ fPc = "idle"
  /\ fDepth = 0
  /\ fRes = Res(<<>>, NoErr)

BodyUnused ==
  /\ bName = <<>>
  /\ bStatus = 0
  /\ bPc = "idle"
  /\ bBody = "none"
  /\ bRes = [file |-> FALSE, err |-> NoErr]

HandlesUnused ==
  /\ hAdapter = "checksum"
  /\ hCfg = <<>>
  /\ hInner = <<>>
  /\ hPc = "idle"
  /\ hFiles = <<>>
  /\ hHeld = {}
  /\ hErr = NoErr

MoreUnused ==
  /\ UriUnused
  /\ MuxUnused
  /\ StackUnused
  /\ EquivUnused
  /\ TryUnused
  /\ FwdUnused
  /\ BodyUnused
  /\ HandlesUnused

ExtUnused ==
  /\ ProtoUnused
  /\ SumUnused
  /\ IpfsUnused
  /\ GzipUnused
  /\ MoreUnused

BaseUnused ==
  /\ RetryUnused
  /\ ChainUnused
  /\ CacheUnused

InitRetry ==
  /\ ctxErr \in {NoErr, Canceled}
  /\ rAttempts \in -1..MaxAttempts
  /\ rOp \in RetryOps
  /\ rName \in Names
  /\ rPc = "entry"
  /\ rI = 0
  /\ rRes = Res(Nil, NoErr)
  /\ rCalls = 0
  /\ rHist = <<>>
  /\ rDelays = 0
  /\ ChainUnused
  /\ CacheUnused
  /\ ExtUnused

\* Entry of a retryFS method: the argument check, then retry.Try2 starts
\* with zero-valued results.
RetryEnter ==
  /\ rPc = "entry"
  /\ LET e == RetryValid(rOp, rName)
     IN IF e # NoErr
        THEN /\ rRes' = Res(Nil, errRetryFSFn(e))
             /\ rPc' = "done"
        ELSE /\ rRes' = Res(Nil, NoErr)
             /\ rPc' = "loop"
  /\ rI' = 0
  /\ UNCHANGED <<ctxErr, rAttempts, rOp, rName, rCalls, rHist, rDelays, chainVars, cacheVars, extVars>>

\* Head of an iteration of retry.Try: the loop condition and the ctx.Err()
\* check; when both pass, f is called.
TryIterate ==
  /\ rPc = "loop"
  /\ IF ~TryLoopCond(rAttempts, rI) \/ ctxErr # NoErr
     THEN /\ rPc' = "done"
          /\ UNCHANGED rCalls
     ELSE /\ rCalls < MaxCalls
          /\ rPc' = "call"
          /\ rCalls' = rCalls + 1
  /\ UNCHANGED <<ctxErr, rAttempts, rOp, rName, rI, rRes, rHist, rDelays, chainVars, cacheVars, extVars>>

\* The inner method returns r; the closure turns it into the results of
\* Try2 and the stop flag.
InnerReturn ==
  /\ rPc = "call"
  /\ \E r \in InnerResults(ctxErr) :
       LET out == RetryFn(r)
       IN /\ rHist' = Append(rHist, r)
          /\ rRes' = out.res
          /\ IF out.stop THEN rPc' = "done"
             ELSE IF TryDelayCond(rAttempts, rI) THEN rPc' = "delay"
             ELSE rPc' = "next"
  /\ UNCHANGED <<ctxErr, rAttempts, rOp, rName, rI, rCalls, rDelays, chainVars, cacheVars, extVars>>

\* The select on ctx.Done() and the timer returns: either the timer fired
\* or the context is done.
DelayEnd ==
  /\ rPc = "delay"
  /\ rPc' = "next"
  /\ rDelays' = rDelays + 1
  /\ UNCHANGED <<ctxErr, rAttempts, rOp, rName, rI, rRes, rCalls, rHist, chainVars, cacheVars, extVars>>

\* i++ at the end of the loop body.
TryNext ==
  /\ rPc = "next"
  /\ rI' = rI + 1
  /\ rPc' = "loop"
  /\ UNCHANGED <<ctxErr, rAttempts, rOp, rName, rRes, rCalls, rHist, rDelays, chainVars, cacheVars, extVars>>

\* The context ends (cancelled or deadline exceeded) while the call runs.
CtxEnd ==
  /\ ctxErr = NoErr
  /\ rPc \in {"entry", "loop", "call", "delay", "next"}
  /\ ctxErr' \in {Canceled, DeadlineExceeded}
  /\ UNCHANGED <<rAttempts, rOp, rName, rPc, rI, rRes, rCalls, rHist, rDelays, chainVars, cacheVars, extVars>>

NextRetry ==
  \/ RetryEnter
  \/ TryIterate
  \/ InnerReturn
  \/ DelayEnd
  \/ TryNext
  \/ CtxEnd

SpecRetry == InitRetry /\ [][NextRetry]_vars

(***************************************************************************)
(* errutil.Append (errutil/errutil.go).                                    *)
(***************************************************************************)
\* The loop of Append over errs: nil errors are skipped, a MultiError
\* contributes its members, any other error itself.
RECURSIVE AppendLoop(_, _)
AppendLoop(mErr, errs) ==
  IF errs = <<>> THEN mErr
  ELSE LET e == Head(errs)
       IN AppendLoop(IF e = NoErr THEN mErr
                     ELSE IF e.tag = "multi" THEN mErr \o e.sub
                     ELSE mErr \o <<e>>,
                     Tail(errs))

\* An Append that keeps only the most recent error.
errutilAppendKeepLast(err, errs) ==
  IF errs = <<>> THEN err ELSE errs[Len(errs)]

errutilAppend(err, errs) ==
  IF err = NoErr /\ errs = <<>> THEN NoErr
  ELSE LET first == IF err.tag = "multi" THEN err.sub
                    ELSE IF err # NoErr THEN <<err>>
                    ELSE <<>>
           mErr == AppendLoop(first, errs)
       IN CASE Len(mErr) = 0 -> NoErr
            [] Len(mErr) = 1 -> mErr[1]
            [] OTHER -> MultiError(mErr)

(***************************************************************************)
(* sliceutil.AppendUniqueSort and AppendUniqueSortFunc.  A slice element   *)
(* is a record with a name; names are numbered in their sort order.        *)
(***************************************************************************)
\* cmp of two entries: strings.Compare of their names.
CmpName(a, b) == IF a.name < b.name THEN -1 ELSE IF a.name > b.name THEN 1 ELSE 0

\* The loop of slices.BinarySearchFunc over the 0-based interval [i, j).
RECURSIVE BinarySearchLoop(_, _, _, _)
BinarySearchLoop(x, target, i, j) ==
  IF i < j
  THEN LET h == (i + j) \div 2
       IN IF CmpName(x[h + 1], target) < 0
          THEN BinarySearchLoop(x, target, h + 1, j)
          ELSE BinarySearchLoop(x, target, i, h)
  ELSE i

BinarySearchFunc(x, target) ==
  LET i == BinarySearchLoop(x, target, 0, Len(x))
  IN [idx |-> i, has |-> i < Len(x) /\ CmpName(x[i + 1], target) = 0]

\* slices.Insert(s, idx, v) with a 0-based idx.
SlicesInsert(s, idx, v) == SubSeq(s, 1, idx) \o <<v>> \o SubSeq(s, idx + 1, Len(s))

\* An append that skips names already present but does not keep the order
\* (sliceutil.AppendUnique).
RECURSIVE AppendUniqueUnsorted(_, _)
AppendUniqueUnsorted(s, vs) ==
  IF vs = <<>> THEN s
  ELSE AppendUniqueUnsorted(
         IF \E k \in 1..Len(s) : s[k].name = Head(vs).name THEN s ELSE s \o <<Head(vs)>>,
         Tail(vs))

RECURSIVE AppendUniqueSortFunc(_, _)
AppendUniqueSortFunc(s, vs) ==
  IF vs = <<>> THEN s
  ELSE LET v == Head(vs)
           r == BinarySearchFunc(s, v)
       IN AppendUniqueSortFunc(IF r.has THEN s ELSE SlicesInsert(s, r.idx, v), Tail(vs))

\* AppendUniqueSort is the same loop with the natural order of the
\* elements, here the order of the names.
AppendUniqueSort(s, vs) == AppendUniqueSortFunc(s, vs)

(***************************************************************************)
(* chainFS (fsutil/v2/chain.go).                                           *)
(***************************************************************************)
ChainFileOps == {"Open", "Stat", "ReadFile"}
ChainListOps == {"Glob", "ReadDir"}
NameIds == {1, 2, 3}

errChainFSFn(err) == Wrap("fsutil.chainFS", err)

\* The nil value of an operation's result type.
NilOf(op) == IF op \in ChainListOps THEN <<>> ELSE Nil

\* The lists of names an inner Glob or ReadDir may return: any order,
\* duplicates included.
ChainNameLists ==
  {<<>>} \cup {<<a>> : a \in NameIds} \cup {<<a, b>> : a \in NameIds, b \in NameIds}

ChainFileErrs ==
  { PathError("open", ErrNotExist),
    errTransient,
    MultiError(<<errTransient, ErrPermission>>) }

ChainListErrs == {PathError("open", ErrNotExist), ErrBadPattern}

\* What inner filesystem i may answer to op.  A ReadDir entry remembers
\* the filesystem it comes from; a Glob match is only a name.
ChainInnerResults(op, i) ==
  IF op \in ChainFileOps
  THEN {Res(d, NoErr) : d \in {"d1", "d2"}} \cup {Res(Nil, e) : e \in ChainFileErrs}
  ELSE {Res([k \in 1..Len(l) |-> [name |-> l[k], fs |-> IF op = "ReadDir" THEN i ELSE 0]], NoErr) :
          l \in ChainNameLists}
       \cup {Res(<<>>, e) : e \in ChainListErrs}

Perms(n) == {p \in [1..n -> 1..n] : \A a, b \in 1..n : p[a] = p[b] => a = b}

\* chainFS.iter: the slices it may return, 1-based.
iter(n, rand) ==
  IF rand THEN Perms(n) ELSE {[k \in 1..n |-> k]}

\* A range loop that walks the slice from its last index to its first.
RangeIndexReversed(s, k) == Len(s) + 1 - k

\* `for i := range s` with one loop variable: in its k-th iteration i is
\* the k-th index of s, not the element stored there.
RangeIndex(s, k) == k

InitChain ==
  /\ cN \in 1..MaxFs
  /\ cRand \in BOOLEAN
  /\ cOp \in ChainFileOps \cup ChainListOps
  /\ cInner \in [1..cN -> UNION {ChainInnerResults(cOp, i) : i \in 1..cN}]
  /\ \A i \in 1..cN : cInner[i] \in ChainInnerResults(cOp, i)
  /\ cPc = "idle"
  /\ cPerm = <<>>
  /\ cPos = 1
  /\ cErr = NoErr
  /\ cS = <<>>
  /\ cRes = Res(NilOf(cOp), NoErr)
  /\ cConsulted = <<>>
  /\ cCallNo = 0
  /\ RetryUnused
  /\ CacheUnused
  /\ ExtUnused

\* A method of chainFS is called: c.iter() is evaluated once, before the
\* range loop starts.
ChainCall ==
  /\ cPc \in {"idle", "done"}
  /\ cCallNo < MaxChainCalls
  /\ cCallNo' = cCallNo + 1
  /\ cPerm' \in iter(cN, cRand)
  /\ cPos' = 1
  /\ cErr' = NoErr
  /\ cS' = <<>>
  /\ cRes' = Res(NilOf(cOp), NoErr)
  /\ cConsulted' = <<>>
  /\ cPc' = "loop"
  /\ UNCHANGED <<cN, cInner, cRand, cOp, retryVars, cacheVars, extVars>>

\* One iteration of the loop of Open, Stat or ReadFile.
ChainFileStep ==
  /\ cPc = "loop"
  /\ cOp \in ChainFileOps
  /\ cPos <= Len(cPerm)
  /\ LET i == RangeIndex(cPerm, cPos)
         r == cInner[i]
     IN /\ cConsulted' = Append(cConsulted, i)
        /\ IF r.err = NoErr
           THEN /\ cRes' = Res(r.val, NoErr)
                /\ cPc' = "done"
                /\ UNCHANGED <<cErr, cPos>>
           ELSE /\ cErr' = errutilAppend(cErr, <<r.err>>)
                /\ cPos' = cPos + 1
                /\ UNCHANGED <<cRes, cPc>>
  /\ UNCHANGED <<cN, cInner, cRand, cOp, cPerm, cS, cCallNo, retryVars, cacheVars, extVars>>

\* The loop of Open, Stat or ReadFile ended without a success.
ChainFileReturn ==
  /\ cPc = "loop"
  /\ cOp \in ChainFileOps
  /\ cPos > Len(cPerm)
  /\ cRes' = Res(Nil, errChainFSFn(cErr))
  /\ cPc' = "done"
  /\ UNCHANGED <<cN, cInner, cRand, cOp, cPerm, cPos, cErr, cS, cConsulted, cCallNo, retryVars, cacheVars, extVars>>

\* One iteration of the loop of Glob.
ChainGlobStep ==
  /\ cPc = "loop"
  /\ cOp = "Glob"
  /\ cPos <= Len(cPerm)
  /\ LET i == RangeIndex(cPerm, cPos)
         r == cInner[i]
     IN /\ cConsulted' = Append(cConsulted, i)
        /\ IF r.err # NoErr
           THEN /\ cRes' = Res(<<>>, errChainFSFn(r.err))
                /\ cPc' = "done"
                /\ UNCHANGED <<cS, cPos>>
           ELSE /\ cS' = AppendUniqueSort(cS, r.val)
                /\ cPos' = cPos + 1
                /\ UNCHANGED <<cRes, cPc>>
  /\ UNCHANGED <<cN, cInner, cRand, cOp, cPerm, cErr, cCallNo, retryVars, cacheVars, extVars>>

\* The loop of Glob ended.
ChainGlobReturn ==
  /\ cPc = "loop"
  /\ cOp = "Glob"
  /\ cPos > Len(cPerm)
  /\ cRes' = Res(cS, NoErr)
  /\ cPc' = "done"
  /\ UNCHANGED <<cN, cInner, cRand, cOp, cPerm, cPos, cErr, cS, cConsulted, cCallNo, retryVars, cacheVars, extVars>>

\* One iteration of the loop of ReadDir.
ChainReadDirStep ==
  /\ cPc = "loop"
  /\ cOp = "ReadDir"
  /\ cPos <= Len(cPerm)
  /\ LET i == RangeIndex(cPerm, cPos)
         r == cInner[i]
     IN /\ cConsulted' = Append(cConsulted, i)
        /\ IF r.err # NoErr
           THEN /\ cErr' = errutilAppend(cErr, <<r.err>>)
                /\ UNCHANGED cS
           ELSE /\ cS' = AppendUniqueSortFunc(cS, r.val)
                /\ UNCHANGED cErr
        /\ cPos' = cPos + 1
  /\ UNCHANGED <<cN, cInner, cRand, cOp, cPc, cPerm, cRes, cCallNo, retryVars, cacheVars, extVars>>

\* The loop of ReadDir ended.
ChainReadDirReturn ==
  /\ cPc = "loop"
  /\ cOp = "ReadDir"
  /\ cPos > Len(cPerm)
  /\ cRes' = IF cErr # NoErr THEN Res(<<>>, errChainFSFn(cErr)) ELSE Res(cS, NoErr)
  /\ cPc' = "done"
  /\ UNCHANGED <<cN, cInner, cRand, cOp, cPerm, cPos, cErr, cS, cConsulted, cCallNo, retryVars, cacheVars, extVars>>

NextChain ==
  \/ ChainCall
  \/ ChainFileStep
  \/ ChainFileReturn
  \/ ChainGlobStep
  \/ ChainGlobReturn
  \/ ChainReadDirStep
  \/ ChainReadDirReturn

SpecChain == InitChain /\ [][NextChain]_vars

(***************************************************************************)
(* cacheFS (fsutil cache filesystem).  Several callers run Open and        *)
(* ReadFile on one cacheFS for one path; every access to the cache         *)
(* directory and to the inner filesystem is a step of its own.             *)
(***************************************************************************)
Callers == 1..NumCallers
CacheOps == {"Open", "ReadFile"}
CacheNames == {NameA, NameAbsA}
Contents == {<<1, 1>>, <<2, 2>>}
CacheInnerErrs == {errTransient, PathError("open", ErrNotExist)}

errCacheFSFn(err) == Wrap("fsutil.cacheFS", err)

\* A cacheOpen that never finds the entry.
cacheOpenNeverFinds(dir, disk) == FALSE

\* cacheOpen: os.Open of the entry succeeds when the file exists.
cacheOpen(dir, disk) == dir /\ disk.exists

\* The file after os.Create: created or truncated.
osCreate(disk) == [exists |-> TRUE, data |-> <<>>]

\* The file after n bytes of b were written at offset 0 through a fresh
\* descriptor.
osWrite(disk, b, n) ==
  [exists |-> TRUE, data |-> SubSeq(b, 1, n) \o SubSeq(disk.data, n + 1, Len(disk.data))]

InMissPath(pc) == pc \in {"inner", "create", "write"}

InitCache ==
  /\ kDir \in BOOLEAN
  /\ kDisk = [exists |-> FALSE, data |-> <<>>]
  /\ kInner \in Contents
  /\ kPc = [c \in Callers |-> "idle"]
  /\ kOp = [c \in Callers |-> "Open"]
  /\ kName = [c \in Callers |-> NameA]
  /\ kBuf = [c \in Callers |-> <<>>]
  /\ kRes = [c \in Callers |-> Res(<<>>, NoErr)]
  /\ kMiss = [c \in Callers |-> FALSE]
  /\ kLater = [c \in Callers |-> FALSE]
  /\ kFirst = [set |-> FALSE, data |-> <<>>]
  /\ kRace = FALSE
  /\ kCallNo = 0
  /\ RetryUnused
  /\ ChainUnused
  /\ ExtUnused

\* Caller c's call returns res.  The first call to return without error
\* is remembered, with whether another caller was then between its cache
\* miss and the end of its cache write.
CacheFinish(c, res) ==
  /\ kRes' = [kRes EXCEPT ![c] = res]
  /\ kPc' = [kPc EXCEPT ![c] = "done"]
  /\ IF res.err = NoErr /\ ~kFirst.set
     THEN /\ kFirst' = [set |-> TRUE, data |-> res.val]
          /\ kRace' = \E d \in Callers \ {c} : InMissPath(kPc[d])
     ELSE UNCHANGED <<kFirst, kRace>>

\* Caller c calls Open or ReadFile: the validPath check.
CacheCall(c) ==
  /\ kPc[c] \in {"idle", "done"}
  /\ kCallNo < MaxCacheCalls
  /\ kCallNo' = kCallNo + 1
  /\ \E op \in CacheOps, name \in CacheNames :
       /\ kOp' = [kOp EXCEPT ![c] = op]
       /\ kName' = [kName EXCEPT ![c] = name]
       /\ LET e == validPath(OpLabel(op), name)
          IN IF e # NoErr
             THEN /\ kRes' = [kRes EXCEPT ![c] = Res(<<>>, errCacheFSFn(e))]
                  /\ kPc' = [kPc EXCEPT ![c] = "done"]
             ELSE /\ kRes' = [kRes EXCEPT ![c] = Res(<<>>, NoErr)]
                  /\ kPc' = [kPc EXCEPT ![c] = "lookup"]
  /\ kMiss' = [kMiss EXCEPT ![c] = FALSE]
  /\ kLater' = [kLater EXCEPT ![c] = kFirst.set]
  /\ kBuf' = [kBuf EXCEPT ![c] = <<>>]
  /\ UNCHANGED <<kDir, kDisk, kInner, kFirst, kRace, retryVars, chainVars, extVars>>

\* The first cacheOpen: a hit leaves the caller with an open file on the
\* entry, a miss sends it to the inner filesystem.
CacheLookup(c) ==
  /\ kPc[c] = "lookup"
  /\ kPc' = [kPc EXCEPT ![c] = IF cacheOpen(kDir, kDisk) THEN "opened" ELSE "inner"]
  /\ UNCHANGED <<kDir, kDisk, kInner, kOp, kName, kBuf, kRes, kMiss, kLater, kFirst, kRace,
                 kCallNo, retryVars, chainVars, extVars>>

\* The open cache file is read to its end: by ReadFile itself (io.ReadAll)
\* or, for Open, by the caller that received the file.
CacheReadOpened(c) ==
  /\ kPc[c] = "opened"
  /\ CacheFinish(c, Res(kDisk.data, NoErr))
  /\ UNCHANGED <<kDir, kDisk, kInner, kOp, kName, kBuf, kMiss, kLater, kCallNo,
                 retryVars, chainVars, extVars>>

\* After a miss the inner filesystem is read: c.fs.Open, io.ReadAll and
\* Close for Open, fs.ReadFile for ReadFile.
CacheInnerRead(c) ==
  /\ kPc[c] = "inner"
  /\ kMiss' = [kMiss EXCEPT ![c] = TRUE]
  /\ \/ /\ kBuf' = [kBuf EXCEPT ![c] = kInner]
        /\ kPc' = [kPc EXCEPT ![c] = "create"]
        /\ UNCHANGED <<kRes, kFirst, kRace>>
     \/ /\ \E e \in CacheInnerErrs : CacheFinish(c, Res(<<>>, errCacheFSFn(e)))
        /\ UNCHANGED kBuf
  /\ UNCHANGED <<kDir, kDisk, kInner, kOp, kName, kLater, kCallNo, retryVars, chainVars, extVars>>

\* cacheWrite, os.Create: fails when the directory is missing, else
\* creates or truncates the entry.
CacheCreate(c) ==
  /\ kPc[c] = "create"
  /\ IF kDir
     THEN /\ kDisk' = osCreate(kDisk)
          /\ kPc' = [kPc EXCEPT ![c] = "write"]
          /\ UNCHANGED <<kRes, kFirst, kRace>>
     ELSE /\ CacheFinish(c, Res(<<>>, errCacheFSFn(PathError("open", ErrNotExist))))
          /\ UNCHANGED kDisk
  /\ UNCHANGED <<kDir, kInner, kOp, kName, kBuf, kMiss, kLater, kCallNo, retryVars, chainVars, extVars>>

\* cacheWrite, f.Write: writes all of b, or fails after a part of it.
CacheWrite(c) ==
  /\ kPc[c] = "write"
  /\ \/ /\ kDisk' = osWrite(kDisk, kBuf[c], Len(kBuf[c]))
        /\ kPc' = [kPc EXCEPT ![c] = "reread"]
        /\ UNCHANGED <<kRes, kFirst, kRace>>
     \/ /\ \E n \in 0..(Len(kBuf[c]) - 1) : kDisk' = osWrite(kDisk, kBuf[c], n)
        /\ CacheFinish(c, Res(<<>>, errCacheFSFn(errTransient)))
  /\ UNCHANGED <<kDir, kInner, kOp, kName, kBuf, kMiss, kLater, kCallNo, retryVars, chainVars, extVars>>

\* After the write the entry is read back: Open opens it again with
\* cacheOpen and returns the file, ReadFile returns cacheRead's bytes.
CacheReread(c) ==
  /\ kPc[c] = "reread"
  /\ IF kOp[c] = "Open"
     THEN IF cacheOpen(kDir, kDisk)
          THEN /\ kPc' = [kPc EXCEPT ![c] = "opened"]
               /\ UNCHANGED <<kRes, kFirst, kRace>>
          ELSE CacheFinish(c, Res(<<>>, errCacheFSFn(PathError("open", ErrNotExist))))
     ELSE CacheFinish(c, Res(kDisk.data, NoErr))
  /\ UNCHANGED <<kDir, kDisk, kInner, kOp, kName, kBuf, kMiss, kLater, kCallNo,
                 retryVars, chainVars, extVars>>

\* The content of the path in the inner filesystem changes.
InnerMutate ==
  /\ kInner' \in Contents \ {kInner}
  /\ UNCHANGED <<kDir, kDisk, kPc, kOp, kName, kBuf, kRes, kMiss, kLater, kFirst, kRace,
                 kCallNo, retryVars, chainVars, extVars>>

NextCache ==
  \/ \E c \in Callers : CacheCall(c)
  \/ \E c \in Callers : CacheLookup(c)
  \/ \E c \in Callers : CacheReadOpened(c)
  \/ \E c \in Callers : CacheInnerRead(c)
  \/ \E c \in Callers : CacheCreate(c)
  \/ \E c \in Callers : CacheWrite(c)
  \/ \E c \in Callers : CacheReread(c)
  \/ InnerMutate

SpecCache == InitCache /\ [][NextCache]_vars

(***************************************************************************)
(* cacheProto: two cache protocols, one per host, configured with the same *)
(* cache directory.  Each resolves test://host/path to a cacheFS over its  *)
(* own backend and the path; calls are taken one at a time.                *)
(***************************************************************************)
Hosts == {1, 2}
ProtoNames == {<<"a">>, <<"b">>}

\* cachePath: the entry's file name is the SHA-1 of the name given to the
\* cacheFS, and of nothing else.
sha1(name) == <<"sha1">> \o name
cachePath(name) == sha1(name)

\* cacheProto.FileSystem: the inner protocol's filesystem wrapped by
\* NewCacheFS with the protocol's options, and the inner protocol's path.
cacheProtoFileSystem(h, name) == [fs |-> h, path |-> name]

ProtoKeys == {cachePath(n) : n \in ProtoNames}

InitProto ==
  /\ pBackend \in [Hosts \X ProtoNames -> Contents]
  /\ pDisk = [k \in ProtoKeys |-> [exists |-> FALSE, data |-> <<>>]]
  /\ pHost = 0
  /\ pName = <<>>
  /\ pRes = Res(<<>>, NoErr)
  /\ BaseUnused
  /\ SumUnused
  /\ IpfsUnused
  /\ GzipUnused
  /\ MoreUnused

\* ParseURI(cacheProto h, "test://h/name") and then Open and a read to
\* the end, or ReadFile, of the resolved path: a hit returns the entry,
\* a miss reads the backend, writes the entry and reads it back.
ProtoRead(h, name) ==
  LET r == cacheProtoFileSystem(h, name)
      key == cachePath(r.path)
      e == validPath("open", r.path)
  IN /\ pHost' = h
     /\ pName' = name
     /\ IF e # NoErr
        THEN /\ pRes' = Res(<<>>, errCacheFSFn(e))
             /\ UNCHANGED pDisk
        ELSE IF cacheOpen(TRUE, pDisk[key])
        THEN /\ pRes' = Res(pDisk[key].data, NoErr)
             /\ UNCHANGED pDisk
        ELSE LET b == pBackend[<<r.fs, r.path>>]
                 written == osWrite(osCreate(pDisk[key]), b, Len(b))
             IN /\ pDisk' = [pDisk EXCEPT ![key] = written]
                /\ pRes' = Res(written.data, NoErr)
     /\ UNCHANGED <<pBackend, protoOthers>>

NextProto == \E h \in Hosts, name \in ProtoNames : ProtoRead(h, name)

SpecProto == InitProto /\ [][NextProto]_vars

(***************************************************************************)
(* checksumFS.  A name is a path with an optional query; the query is a    *)
(* list of key=value pairs, or a string url.ParseQuery rejects.  A file is *)
(* the sequence of results its Read gives, ended by the first error.       *)
(***************************************************************************)
EOF == Leaf("EOF")
errChecksumFSFn(err) == Wrap("fsutil.checksumFS", err)

\* types.ZeroHash and the digest of a content (hash.Write then hash.Sum): an
\* injective function that never yields the zero hash.
ZeroHash == <<0>>
hashSum(data) == <<7>> \o data

\* A query value: the hex text of a 32-byte hash, or text that
\* types.HashFromHex rejects (not hex, wrong length, empty).
HexOf(h) == [ok |-> TRUE, h |-> h]
NotHex == [ok |-> FALSE, h |-> <<>>]
HashFromHex(v) == IF v.ok THEN [h |-> v.h, err |-> FALSE] ELSE [h |-> ZeroHash, err |-> TRUE]

Param(k, v) == [k |-> k, v |-> v]
SumName(path, q, bad, pairs) == [path |-> path, q |-> q, bad |-> bad, pairs |-> pairs]

\* url.Values: Get gives the first value of the key or "", Del removes
\* every value of the key, Encode writes the pairs sorted by key.
ValuesGet(pairs, k) ==
  IF \E i \in 1..Len(pairs) : pairs[i].k = k
  THEN pairs[CHOOSE i \in 1..Len(pairs) :
               pairs[i].k = k /\ \A j \in 1..(i - 1) : pairs[j].k # k].v
  ELSE NotHex
ValuesDel(pairs, k) == SelectSeq(pairs, LAMBDA x : x.k # k)
KeyRank(k) == CASE k = "a" -> 1 [] k = "checksum" -> 2 [] OTHER -> 3
ValuesEncode(pairs) == SortSeq(pairs, LAMBDA x, y : KeyRank(x.k) < KeyRank(y.k))

\* checksumParam: the name without the checksum parameter and the checksum;
\* the unchanged name and the zero hash when there is no query, the query
\* does not parse or the value is not a hash.
checksumParam(name) ==
  IF ~name.q
  THEN [name |-> name, h |-> ZeroHash]
  ELSE IF name.bad
  THEN [name |-> name, h |-> ZeroHash]
  ELSE LET h == HashFromHex(ValuesGet(name.pairs, "checksum"))
           v == ValuesDel(name.pairs, "checksum")
       IN IF h.err
          THEN [name |-> name, h |-> ZeroHash]
          ELSE IF v = <<>>
          THEN [name |-> SumName(name.path, FALSE, FALSE, <<>>), h |-> h.h]
          ELSE [name |-> SumName(name.path, TRUE, FALSE, ValuesEncode(v)), h |-> h.h]

\* One result of Read: the bytes placed in the buffer and the error.
Rd(b, err) == [b |-> b, err |-> err]

\* The results of the Reads of an inner file holding data, one byte per
\* Read: the end is reported by a Read of its own, or together with the
\* last byte, or a Read fails after the first byte.
InnerShapes == {"eofAlone", "eofWithData", "fails"}
InnerReads(data, shape) ==
  CASE shape = "eofAlone" ->
         [i \in 1..(Len(data) + 1) |->
            IF i <= Len(data) THEN Rd(<<data[i]>>, NoErr) ELSE Rd(<<>>, EOF)]
    [] shape = "eofWithData" ->
         [i \in 1..Len(data) |->
            Rd(<<data[i]>>, IF i = Len(data) THEN EOF ELSE NoErr)]
    [] shape = "fails" ->
         <<Rd(<<data[1]>>, NoErr), Rd(<<>>, errTransient)>>

\* bytes.NewReader(data).
BytesReads(data) == InnerReads(data, "eofAlone")

\* A checksumFile.Read that reports the end without comparing digests.
RECURSIVE checksumFileReadNoCompare(_, _, _, _)
checksumFileReadNoCompare(reads, i, hashed, checksum) ==
  LET r == reads[i]
  IN IF ErrorsIs(r.err, EOF) THEN <<Rd(<<>>, EOF)>>
     ELSE IF r.err # NoErr THEN <<Rd(<<>>, r.err)>>
     ELSE <<Rd(r.b, NoErr)>> \o checksumFileReadNoCompare(reads, i + 1, hashed \o r.b, checksum)

\* checksumFile.Read, call after call from the i-th Read of the inner file
\* on: at the inner file's EOF the digest of the bytes hashed so far is
\* compared with the checksum and no byte is returned; an error is passed
\* on; otherwise the bytes are hashed and returned.
RECURSIVE checksumFileRead(_, _, _, _)
checksumFileRead(reads, i, hashed, checksum) ==
  LET r == reads[i]
  IN IF ErrorsIs(r.err, EOF)
     THEN <<Rd(<<>>, IF checksum # hashSum(hashed) THEN errChecksumFSMismatch ELSE EOF)>>
     ELSE IF r.err # NoErr
     THEN <<Rd(<<>>, r.err)>>
     ELSE <<Rd(r.b, NoErr)>> \o checksumFileRead(reads, i + 1, hashed \o r.b, checksum)

\* The bytes checksumFile has hashed when the inner file ends.
RECURSIVE checksumHashed(_, _)
checksumHashed(reads, i) ==
  IF reads[i].err # NoErr THEN <<>> ELSE reads[i].b \o checksumHashed(reads, i + 1)

\* io.ReadAll: appends the bytes of every Read, ends at the first error and
\* returns the bytes with it, EOF being reported as nil.
RECURSIVE ioReadAllFrom(_, _)
ioReadAllFrom(reads, i) ==
  LET r == reads[i]
  IN IF r.err = NoErr
     THEN LET rest == ioReadAllFrom(reads, i + 1)
          IN Res(r.b \o rest.val, rest.err)
     ELSE Res(r.b, IF r.err = EOF THEN NoErr ELSE r.err)
ioReadAll(reads) == ioReadAllFrom(reads, 1)

NoFile == [open |-> FALSE, reads |-> <<>>]
File(reads) == [open |-> TRUE, reads |-> reads]

\* Open of an inner filesystem, and fs.ReadFile on it.
innerOpen(inner) ==
  IF inner.err # NoErr THEN [file |-> NoFile, err |-> inner.err]
  ELSE [file |-> File(InnerReads(inner.data, inner.shape)), err |-> NoErr]
fsReadFile(inner) ==
  IF inner.err # NoErr THEN Res(<<>>, inner.err) ELSE ioReadAll(InnerReads(inner.data, inner.shape))

SumModes == {"AfterRead", "AfterOpen"}
SumOps == {"Open", "ReadFile"}
SumValues == {HexOf(hashSum(d)) : d \in Contents} \cup {HexOf(ZeroHash), NotHex}
SumNames ==
  {SumName(NameA, FALSE, FALSE, <<>>),
   SumName(NameA, TRUE, FALSE, <<Param("x", NotHex), Param("a", NotHex)>>)}
    \cup {SumName(NameA, TRUE, FALSE, <<Param("checksum", v)>>) : v \in SumValues}
    \cup {SumName(NameA, TRUE, FALSE, <<Param("x", NotHex), Param("checksum", v), Param("a", NotHex)>>) :
            v \in SumValues}
    \cup {SumName(NameA, TRUE, TRUE, <<Param("checksum", HexOf(hashSum(d)))>>) : d \in Contents}
SumInners ==
  {[err |-> e, data |-> <<>>, shape |-> "eofAlone", statErr |-> FALSE] :
     e \in {errTransient, PathError("open", ErrNotExist)}}
    \cup {[err |-> NoErr, data |-> d, shape |-> sh, statErr |-> st] :
            d \in Contents, sh \in InnerShapes, st \in BOOLEAN}

\* checksumFS.Open.
checksumOpen(mode, name, inner) ==
  LET p == checksumParam(name)
      reads == InnerReads(inner.data, inner.shape)
  IN IF inner.err # NoErr
     THEN [file |-> NoFile, err |-> errChecksumFSFn(inner.err), passed |-> p.name]
     ELSE IF p.h = ZeroHash
     THEN [file |-> File(reads), err |-> NoErr, passed |-> p.name]
     ELSE IF mode = "AfterRead"
     THEN [file |-> File(checksumFileRead(reads, 1, <<>>, p.h)), err |-> NoErr, passed |-> p.name]
     ELSE IF inner.statErr
     THEN [file |-> NoFile, err |-> errChecksumFSFn(errTransient), passed |-> p.name]
     ELSE LET ra == ioReadAll(checksumFileRead(reads, 1, <<>>, p.h))
          IN IF ra.err # NoErr
             THEN [file |-> NoFile, err |-> errChecksumFSFn(ra.err), passed |-> p.name]
             ELSE [file |-> File(BytesReads(ra.val)), err |-> NoErr, passed |-> p.name]

\* checksumFS.ReadFile: Open, then io.ReadAll of the file, returned as is.
checksumReadFile(mode, name, inner) ==
  LET o == checksumOpen(mode, name, inner)
  IN IF o.err # NoErr THEN Res(<<>>, o.err) ELSE ioReadAll(o.file.reads)

InitSum ==
  /\ sMode \in SumModes
  /\ sPc = "idle"
  /\ sOp = "Open"
  /\ sName = SumName(NameA, FALSE, FALSE, <<>>)
  /\ sInner = [err |-> NoErr, data |-> <<1, 1>>, shape |-> "eofAlone", statErr |-> FALSE]
  /\ sPassed = SumName(NameA, FALSE, FALSE, <<>>)
  /\ sFile = NoFile
  /\ sRes = Res(<<>>, NoErr)
  /\ sRead = Res(<<>>, NoErr)
  /\ BaseUnused
  /\ ProtoUnused
  /\ IpfsUnused
  /\ GzipUnused
  /\ MoreUnused

\* A call of Open or ReadFile on the checksumFS.
SumCall ==
  /\ sPc \in {"idle", "done"}
  /\ \E op \in SumOps, name \in SumNames, inner \in SumInners :
       LET o == checksumOpen(sMode, name, inner)
       IN /\ sOp' = op
          /\ sName' = name
          /\ sInner' = inner
          /\ sPassed' = o.passed
          /\ sRead' = Res(<<>>, NoErr)
          /\ IF op = "Open"
             THEN /\ sFile' = o.file
                  /\ sRes' = Res(<<>>, o.err)
                  /\ sPc' = IF o.err = NoErr THEN "opened" ELSE "done"
             ELSE /\ sFile' = NoFile
                  /\ sRes' = checksumReadFile(sMode, name, inner)
                  /\ sPc' = "done"
  /\ UNCHANGED <<sMode, sumOthers>>

\* The caller reads the file returned by Open to its end.
SumReadToEnd ==
  /\ sPc = "opened"
  /\ sRead' = ioReadAll(sFile.reads)
  /\ sPc' = "done"
  /\ UNCHANGED <<sMode, sOp, sName, sInner, sPassed, sFile, sRes, sumOthers>>

NextSum ==
  \/ SumCall
  \/ SumReadToEnd

SpecSum == InitSum /\ [][NextSum]_vars

(***************************************************************************)
(* ipfsFS: a chainFS in random mode over one verify-after-open checksumFS  *)
(* per gateway, each over an httpFS.  One call of Open is followed, for    *)
(* any name and any answers of the gateways.                               *)
(***************************************************************************)
NumGateways == 2
errIPFSFSFn(err) == Wrap("fsutil.ipfsFS", err)
errHTTPFSRequestErrorFn(err) == Wrap("fsutil.httpFS", err)

\* httpFS.Open on a gateway: a status other than 200 is an error, a 200 is
\* a file that reads the response body; its Stat never fails.
GatewayAnswers ==
  {[err |-> errHTTPFSRequestErrorFn(e), data |-> <<>>, shape |-> "eofAlone", statErr |-> FALSE] :
     e \in {ErrNotExist, errTransient}}
    \cup {[err |-> NoErr, data |-> d, shape |-> sh, statErr |-> FALSE] :
            d \in Contents, sh \in InnerShapes}

IpfsNames ==
  SumNames \cup {SumName(NameAbsA, TRUE, FALSE, <<Param("checksum", HexOf(hashSum(<<1, 1>>)))>>)}

\* chainFS.Open from the k-th iteration of its range loop on, err being the
\* errors collected so far and opens[i] what c.fs[i].Open(name) returns.
RECURSIVE chainOpenFrom(_, _, _, _)
chainOpenFrom(opens, perm, k, err) ==
  IF k > Len(perm)
  THEN [file |-> NoFile, err |-> errChainFSFn(err)]
  ELSE LET i == RangeIndex(perm, k)
       IN IF opens[i].err = NoErr
          THEN [file |-> opens[i].file, err |-> NoErr]
          ELSE chainOpenFrom(opens, perm, k + 1, errutilAppend(err, <<opens[i].err>>))

\* ipfsFS.Open.
ipfsOpen(name, gws, perm) ==
  LET e == validPath("open", name.path)
  IN IF e # NoErr
     THEN [file |-> NoFile, err |-> errIPFSFSFn(e)]
     ELSE chainOpenFrom([i \in 1..Len(gws) |-> checksumOpen("AfterOpen", name, gws[i])],
                        perm, 1, NoErr)

InitIpfs ==
  /\ gGw \in [1..NumGateways -> GatewayAnswers]
  /\ gPerm \in iter(NumGateways, TRUE)
  /\ gName \in IpfsNames
  /\ gPc = "idle"
  /\ gFile = NoFile
  /\ gRes = Res(<<>>, NoErr)
  /\ gRead = Res(<<>>, NoErr)
  /\ BaseUnused
  /\ ProtoUnused
  /\ SumUnused
  /\ GzipUnused
  /\ MoreUnused

\* A call of Open on the ipfsFS.
IpfsOpen ==
  /\ gPc = "idle"
  /\ LET o == ipfsOpen(gName, gGw, gPerm)
     IN /\ gFile' = o.file
        /\ gRes' = Res(<<>>, o.err)
        /\ gPc' = IF o.err = NoErr THEN "opened" ELSE "done"
  /\ UNCHANGED <<gGw, gPerm, gName, gRead, ipfsOthers>>

\* The caller reads the file returned by Open to its end.
IpfsReadToEnd ==
  /\ gPc = "opened"
  /\ gRead' = ioReadAll(gFile.reads)
  /\ gPc' = "done"
  /\ UNCHANGED <<gGw, gPerm, gName, gFile, gRes, ipfsOthers>>

NextIpfs ==
  \/ IpfsOpen
  \/ IpfsReadToEnd

SpecIpfs == InitIpfs /\ [][NextIpfs]_vars

(***************************************************************************)
(* gzipFS.  Names and extensions are sequences of characters.  A gzip      *)
(* stream is a header byte, the plaintext and a trailer that depends on    *)
(* the plaintext; one call of Open or ReadFile is followed, for any        *)
(* configuration, name and inner file.                                     *)
(***************************************************************************)
defaultGzipExt == <<"g", "z">>
GzipLimits == {2, 3}
ErrHeader == Leaf("gzip: invalid header")
ErrChecksum == Leaf("gzip: invalid checksum")

GzMagic == 31
GzTrailer(plain) == 100 + Len(plain)
gzipData(plain) == <<GzMagic>> \o plain \o <<GzTrailer(plain)>>
GzPlainOf(bytes) == SubSeq(bytes, 2, Len(bytes) - 1)
HasGzipHeader(bytes) == Len(bytes) >= 2 /\ bytes[1] = GzMagic
IsGzipData(bytes) == HasGzipHeader(bytes) /\ bytes = gzipData(GzPlainOf(bytes))

\* strings.HasSuffix.
HasSuffix(str, suffix) ==
  /\ Len(suffix) <= Len(str)
  /\ SubSeq(str, Len(str) - Len(suffix) + 1, Len(str)) = suffix

GzPlains == {<<1>>, <<1, 2>>, <<1, 2, 3>>, <<1, 2, 3, 4>>}
GzipNames ==
  { <<"a", ".", "g", "z">>,
    <<"a", ".", "z">>,
    <<"a">>,
    <<"a", "g", "z">>,
    <<"a", ".", "g", "z", "?", "c">>,
    <<"/", "a", ".", "g", "z">> }
GzipExtLists == {<<defaultGzipExt>>, <<<<"z">>, <<"b">>>>}
GzipInners ==
  {[err |-> PathError("open", ErrNotExist), bytes |-> <<>>, shape |-> "eofAlone", gshape |-> "eofAlone"]}
    \cup {[err |-> NoErr, bytes |-> b, shape |-> sh, gshape |-> gs] :
            b \in {gzipData(pl) : pl \in GzPlains} \cup {<<1, 2>>, <<>>, <<GzMagic, 1, 0>>},
            sh \in {"eofAlone", "eofWithData"},
            gs \in {"eofAlone", "eofWithData"}}

\* The results of the Reads of the inner file itself.
GzInnerReads(inner) ==
  IF inner.bytes = <<>> THEN <<Rd(<<>>, EOF)>> ELSE InnerReads(inner.bytes, inner.shape)

\* gzip.NewReader: reads the header.
gzipNewReader(bytes) ==
  IF bytes = <<>> THEN EOF
  ELSE IF ~HasGzipHeader(bytes) THEN ErrHeader
  ELSE NoErr

\* The results of the Reads of the gzip.Reader, one byte per Read: the
\* plaintext, ended by EOF when the trailer matches and by an error when it
\* does not, alone or together with the last byte.
GzReads(bytes, gshape) ==
  LET plain == GzPlainOf(bytes)
      end == IF IsGzipData(bytes) THEN EOF ELSE ErrChecksum
  IN IF plain = <<>> \/ gshape = "eofAlone"
     THEN [i \in 1..(Len(plain) + 1) |->
             IF i <= Len(plain) THEN Rd(<<plain[i]>>, NoErr) ELSE Rd(<<>>, end)]
     ELSE [i \in 1..Len(plain) |->
             Rd(<<plain[i]>>, IF i = Len(plain) THEN end ELSE NoErr)]

\* gzipFile.Read, call after call from the i-th Read of the gzip.Reader on,
\* with n bytes remaining of the limit.
RECURSIVE gzipFileRead(_, _, _)
gzipFileRead(reads, i, n) ==
  LET r == reads[i]
  IN IF n <= 0
     THEN <<Rd(<<>>, IF ErrorsIs(r.err, EOF) THEN EOF ELSE ErrUnexpectedEOF)>>
     ELSE IF r.err # NoErr
     THEN <<Rd(r.b, r.err)>>
     ELSE <<Rd(r.b, NoErr)>> \o gzipFileRead(reads, i + 1, n - Len(r.b))

\* A shouldDecompress that ignores the configuration.
shouldDecompressAlways(checkExt, exts, name) == TRUE

\* gzipFS.shouldDecompress.
shouldDecompress(checkExt, exts, name) ==
  IF ~checkExt THEN TRUE
  ELSE \E k \in 1..Len(exts) : HasSuffix(name, <<".">> \o exts[k])

\* gzipFS.Open; opens counts the calls of the inner filesystem's Open.
gzipOpen(checkExt, exts, limit, name, inner) ==
  LET e == validPath("open", name)
  IN IF e # NoErr
     THEN [file |-> NoFile, err |-> errGzipFSFn(e), opens |-> 0]
     ELSE IF inner.err # NoErr
     THEN [file |-> NoFile, err |-> errGzipFSFn(inner.err), opens |-> 1]
     ELSE IF ~shouldDecompress(checkExt, exts, name)
     THEN [file |-> File(GzInnerReads(inner)), err |-> NoErr, opens |-> 2]
     ELSE IF gzipNewReader(inner.bytes) # NoErr
     THEN [file |-> NoFile, err |-> gzipNewReader(inner.bytes), opens |-> 1]
     ELSE [file |-> File(gzipFileRead(GzReads(inner.bytes, inner.gshape), 1, limit)),
           err |-> NoErr, opens |-> 1]

\* gzipFS.ReadFile.
gzipReadFile(checkExt, exts, limit, name, inner) ==
  LET e == validPath("readFile", name)
  IN IF e # NoErr
     THEN [res |-> Res(<<>>, errGzipFSFn(e)), opens |-> 0]
     ELSE IF ~shouldDecompress(checkExt, exts, name)
     THEN [res |-> IF inner.err # NoErr
                   THEN Res(<<>>, errGzipFSFn(inner.err))
                   ELSE LET ra == ioReadAll(GzInnerReads(inner))
                        IN IF ra.err # NoErr THEN Res(<<>>, errGzipFSFn(ra.err)) ELSE ra,
           opens |-> 1]
     ELSE LET o == gzipOpen(checkExt, exts, limit, name, inner)
          IN IF o.err # NoErr
             THEN [res |-> Res(<<>>, errGzipFSFn(o.err)), opens |-> o.opens]
             ELSE LET ra == ioReadAll(o.file.reads)
                  IN [res |-> IF ra.err # NoErr
                              THEN Res(<<>>, errGzipFSFn(ra.err))
                              ELSE Res(ra.val, NoErr),
                      opens |-> o.opens]

InitGzip ==
  /\ zCheckExt \in BOOLEAN
  /\ zExts \in GzipExtLists
  /\ zLimit \in GzipLimits
  /\ zPc = "idle"
  /\ zOp \in {"Open", "ReadFile"}
  /\ zName \in GzipNames
  /\ zInner \in GzipInners
  /\ zFile = NoFile
  /\ zRes = Res(<<>>, NoErr)
  /\ zRead = Res(<<>>, NoErr)
  /\ zOpens = 0
  /\ BaseUnused
  /\ ProtoUnused
  /\ SumUnused
  /\ IpfsUnused
  /\ MoreUnused

\* The call of Open or ReadFile on the gzipFS.
GzipCall ==
  /\ zPc = "idle"
  /\ IF zOp = "Open"
     THEN LET o == gzipOpen(zCheckExt, zExts, zLimit, zName, zInner)
          IN /\ zFile' = o.file
             /\ zRes' = Res(<<>>, o.err)
             /\ zOpens' = o.opens
             /\ zPc' = IF o.err = NoErr THEN "opened" ELSE "done"
     ELSE LET r == gzipReadFile(zCheckExt, zExts, zLimit, zName, zInner)
          IN /\ zFile' = NoFile
             /\ zRes' = r.res
             /\ zOpens' = r.opens
             /\ zPc' = "done"
  /\ UNCHANGED <<zCheckExt, zExts, zLimit, zOp, zName, zInner, zRead, gzipOthers>>

\* The caller reads the file returned by Open to its end.
GzipReadToEnd ==
  /\ zPc = "opened"
  /\ zRead' = ioReadAll(zFile.reads)
  /\ zPc' = "done"
  /\ UNCHANGED <<zCheckExt, zExts, zLimit, zOp, zName, zInner, zFile, zRes, zOpens, gzipOthers>>

NextGzip ==
  \/ GzipCall
  \/ GzipReadToEnd

SpecGzip == InitGzip /\ [][NextGzip]_vars

(***************************************************************************)
(* URIs: the protocols' FileSystem, ParseURI (unnamed/part_014) and        *)
(* httpFS.Open (fsutil/http.go).  A string is a sequence of tokens, each a *)
(* character or the escape "%20" of the space; a URL holds the fields of   *)
(* net/url.URL that the code reads.  One URL or string is resolved by one  *)
(* protocol, and the path an httpFS was returned for is opened on it.      *)
(***************************************************************************)
URL(scheme, host, path, forceQuery, rawQuery, fragment) ==
  [scheme |-> scheme, host |-> host, path |-> path, forceQuery |-> forceQuery,
   rawQuery |-> rawQuery, fragment |-> fragment]
NoURL == URL("", <<>>, <<>>, FALSE, <<>>, <<>>)

errEscape == Leaf("url: invalid URL escape")
errParseURIFn(err) == Wrap("fsutil.ParseURI", err)
errHTTPFSFn(err) == Wrap("fsutil.httpFS", err)
errHTTPProtoUnexpectedScheme == Leaf("fsutil.httpProto: unexpected scheme")
errHTTPProtoEmptyHost == Leaf("fsutil.httpProto: empty host")
errHTTPProtoFragmentNotAllowed == Leaf("fsutil.httpProto: fragment not allowed")
errHTTPFSRequestErrorCode == Leaf("fsutil.httpFS: unexpected status code")
errFileUnexpectedScheme == Leaf("fsutil.fileProto: unexpected scheme")
errFileUnexpectedHost == Leaf("fsutil.fileProto: unexpected host")
errIPFSProtoUnexpectedScheme == Leaf("fsutil.ipfsProto: unexpected scheme")
errIPFSProtoEmptyHost == Leaf("fsutil.ipfsProto: empty host")
errIPFSProtoFragmentNotAllowed == Leaf("fsutil.ipfsProto: fragment not allowed")

\* The position of the first token c of s at or after i, Len(s)+1 if none.
RECURSIVE IndexFrom(_, _, _)
IndexFrom(s, c, i) ==
  IF i > Len(s) THEN Len(s) + 1
  ELSE IF s[i] = c THEN i
  ELSE IndexFrom(s, c, i + 1)

\* The elements of s between its slashes, from position i on.
RECURSIVE SplitSlash(_, _)
SplitSlash(s, i) ==
  LET j == SlashFrom(s, i)
  IN <<SubSeq(s, i, j - 1)>> \o (IF j > Len(s) THEN <<>> ELSE SplitSlash(s, j + 1))

RECURSIVE JoinSlash(_, _)
JoinSlash(elems, i) ==
  IF i > Len(elems) THEN <<>>
  ELSE elems[i] \o (IF i < Len(elems) THEN <<"/">> ELSE <<>>) \o JoinSlash(elems, i + 1)

\* The element loop of path.Clean: empty and "." elements are dropped, a
\* ".." removes the element before it, is dropped at the root and is kept
\* at the start of a relative path.
RECURSIVE CleanElems(_, _, _, _)
CleanElems(elems, i, rooted, out) ==
  IF i > Len(elems) THEN out
  ELSE LET e == elems[i]
       IN IF e = <<>> \/ e = <<".">>
          THEN CleanElems(elems, i + 1, rooted, out)
          ELSE IF e # <<".", ".">>
          THEN CleanElems(elems, i + 1, rooted, Append(out, e))
          ELSE IF out # <<>> /\ out[Len(out)] # <<".", ".">>
          THEN CleanElems(elems, i + 1, rooted, SubSeq(out, 1, Len(out) - 1))
          ELSE IF rooted
          THEN CleanElems(elems, i + 1, rooted, out)
          ELSE CleanElems(elems, i + 1, rooted, Append(out, e))

\* path.Clean.
pathClean(p) ==
  IF p = <<>> THEN <<".">>
  ELSE LET rooted == p[1] = "/"
           out == JoinSlash(CleanElems(SplitSlash(p, 1), 1, rooted, <<>>), 1)
       IN IF rooted THEN <<"/">> \o out
          ELSE IF out = <<>> THEN <<".">>
          ELSE out

\* path.Join of two elements.
pathJoin(a, b) ==
  IF a = <<>> /\ b = <<>> THEN <<>>
  ELSE IF a = <<>> THEN pathClean(b)
  ELSE IF b = <<>> THEN pathClean(a)
  ELSE pathClean(a \o <<"/">> \o b)

\* net/url's unescape and escape of a path: "%20" is the space, a "%" that
\* starts no escape is an error.
urlValidEscapes(s) == \A i \in 1..Len(s) : s[i] # "%"
urlUnescape(s) == [i \in 1..Len(s) |-> IF s[i] = "%20" THEN " " ELSE s[i]]
urlEscape(s) == [i \in 1..Len(s) |-> IF s[i] = " " THEN "%20" ELSE s[i]]

\* url.Parse of what follows the scheme and the authority, and of a
\* reference that has neither: fragment, query and path.
urlParseRef(scheme, host, ref) ==
  LET h == IndexFrom(ref, "#", 1)
      frag == SubSeq(ref, h + 1, Len(ref))
      rest == SubSeq(ref, 1, h - 1)
      q == IndexFrom(rest, "?", 1)
      rawPath == SubSeq(rest, 1, q - 1)
      query == SubSeq(rest, q + 1, Len(rest))
  IN IF ~urlValidEscapes(rawPath) \/ ~urlValidEscapes(frag)
     THEN [url |-> NoURL, err |-> errEscape]
     ELSE [url |-> URL(scheme, host, urlUnescape(rawPath),
                       q = Len(rest) /\ q >= 1, query, urlUnescape(frag)),
           err |-> NoErr]

\* URL.EscapedPath.
EscapedPath(u) == urlEscape(u.path)

\* uriPath.
uriPath(uri, inclQueryAndFragment) ==
  LET p0 == EscapedPath(uri)
      p == IF p0 # <<>> /\ p0[1] = "/" THEN Tail(p0) ELSE p0
      w == IF p = <<>> \/ p = <<"/">> THEN <<".">> ELSE p
      wq == IF inclQueryAndFragment /\ (uri.forceQuery \/ uri.rawQuery # <<>>)
            THEN w \o <<"?">> \o uri.rawQuery ELSE w
      wf == IF inclQueryAndFragment /\ uri.fragment # <<>>
            THEN wq \o <<"#">> \o urlEscape(uri.fragment) ELSE wq
  IN pathClean(wf)

\* uriSplit.
uriSplit(uri) ==
  [base |-> URL(uri.scheme, uri.host, <<>>, FALSE, <<>>, <<>>),
   path |-> uriPath(uri, TRUE)]

\* URL.JoinPath with one element.
JoinPath(u, elem) ==
  LET e0 == EscapedPath(u)
      p0 == IF e0 = <<>> \/ e0[1] # "/"
            THEN Tail(pathJoin(<<"/">> \o e0, elem))
            ELSE pathJoin(e0, elem)
      p == IF elem # <<>> /\ elem[Len(elem)] = "/" /\ (p0 = <<>> \/ p0[Len(p0)] # "/")
           THEN p0 \o <<"/">> ELSE p0
  IN [u EXCEPT !.path = urlUnescape(p)]

\* httpFS.parse.
httpParse(baseURI, name) ==
  LET pr == urlParseRef("", <<>>, IF name = <<".">> THEN <<>> ELSE name)
  IN IF pr.err # NoErr THEN pr
     ELSE [url |-> [JoinPath(baseURI, uriPath(pr.url, FALSE)) EXCEPT
                      !.forceQuery = pr.url.forceQuery,
                      !.rawQuery = pr.url.rawQuery],
           err |-> NoErr]

\* http.NewRequestWithContext(ctx, GET, url.String(), nil): the URL of the
\* request is parsed from the string form, in which a path that does not
\* start with a slash is given one after the host.
requestURL(u) ==
  [u EXCEPT !.path = IF u.host # <<>> /\ u.path # <<>> /\ u.path[1] # "/"
                     THEN <<"/">> \o u.path ELSE u.path]

\* URL.RequestURI: what the request asks the host for.
RequestURI(u) ==
  (IF u.path = <<>> THEN <<"/">> ELSE EscapedPath(u))
    \o (IF u.forceQuery \/ u.rawQuery # <<>> THEN <<"?">> \o u.rawQuery ELSE <<>>)

validHTTPURI(uri) ==
  IF uri.scheme # "http" /\ uri.scheme # "https" THEN errHTTPProtoUnexpectedScheme
  ELSE IF uri.host = <<>> THEN errHTTPProtoEmptyHost
  ELSE IF uri.fragment # <<>> THEN errHTTPProtoFragmentNotAllowed
  ELSE NoErr

validIPFSURI(uri) ==
  IF uri.scheme # "ipfs" /\ uri.scheme # "ipfs+gateway" THEN errIPFSProtoUnexpectedScheme
  ELSE IF uri.host = <<>> THEN errIPFSProtoEmptyHost
  ELSE IF uri.fragment # <<>> THEN errIPFSProtoFragmentNotAllowed
  ELSE NoErr

\* The FileSystem method of each protocol: (base of the httpFS, path, err).
httpProtoFileSystem(uri) ==
  IF validHTTPURI(uri) # NoErr
  THEN [base |-> NoURL, path |-> <<>>, err |-> validHTTPURI(uri)]
  ELSE [base |-> uriSplit(uri).base, path |-> uriSplit(uri).path, err |-> NoErr]

fileProtoFileSystem(url) ==
  IF url.scheme # "file"
  THEN [base |-> NoURL, path |-> <<>>, err |-> errFileUnexpectedScheme]
  ELSE IF url.host # <<>> /\ url.host # <<"localhost">>
  THEN [base |-> NoURL, path |-> <<>>, err |-> errFileUnexpectedHost]
  ELSE [base |-> NoURL, path |-> uriPath(url, TRUE), err |-> NoErr]

ipfsProtoFileSystem(uri) ==
  IF validIPFSURI(uri) # NoErr
  THEN [base |-> NoURL, path |-> <<>>, err |-> validIPFSURI(uri)]
  ELSE LET path == uriPath(uri, TRUE)
       IN [base |-> NoURL, path |-> IF path = <<>> THEN <<".">> ELSE path, err |-> NoErr]

fsProtoFileSystem(url) == [base |-> NoURL, path |-> uriPath(url, TRUE), err |-> NoErr]

chainProtoFileSystem(url) == [base |-> NoURL, path |-> uriPath(url, TRUE), err |-> NoErr]

UriProtos == {"file", "http", "ipfs", "fs", "chain"}

FileSystem(proto, uri) ==
  CASE proto = "file" -> fileProtoFileSystem(uri)
    [] proto = "http" -> httpProtoFileSystem(uri)
    [] proto = "ipfs" -> ipfsProtoFileSystem(uri)
    [] proto = "fs" -> fsProtoFileSystem(uri)
    [] proto = "chain" -> chainProtoFileSystem(uri)

\* ParseURI of a string without "://".
ParseURI(proto, uri) ==
  LET pr == urlParseRef("file", <<>>, <<"/">> \o uri)
  IN IF pr.err # NoErr
     THEN [url |-> NoURL, fs |-> [base |-> NoURL, path |-> <<>>, err |-> errParseURIFn(pr.err)]]
     ELSE [url |-> pr.url, fs |-> FileSystem(proto, pr.url)]

\* A switch that leaves 402 to the default case.
httpStatusErrorWithout402(code) ==
  CASE code = 404 -> errHTTPFSRequestErrorFn(ErrNotExist)
    [] code \in {401, 403} -> errHTTPFSRequestErrorFn(ErrPermission)
    [] OTHER -> errHTTPFSRequestErrorCode

\* The switch of httpFS.Open on a status code that is not 200.
httpStatusError(code) ==
  CASE code = 404 -> errHTTPFSRequestErrorFn(ErrNotExist)
    [] code \in {401, 402, 403} -> errHTTPFSRequestErrorFn(ErrPermission)
    [] OTHER -> errHTTPFSRequestErrorCode

\* httpFS.Open: the URL requested, if any, and the result.
httpOpen(baseURI, name, status) ==
  LET e == validPath("open", name)
      pr == httpParse(baseURI, name)
  IN IF e # NoErr
     THEN [url |-> NoURL, file |-> FALSE, err |-> errHTTPFSFn(e)]
     ELSE IF pr.err # NoErr
     THEN [url |-> NoURL, file |-> FALSE, err |-> errHTTPFSFn(pr.err)]
     ELSE IF status = 0
     THEN [url |-> requestURL(pr.url), file |-> FALSE, err |-> errHTTPFSRequestErrorFn(errTransient)]
     ELSE IF status # 200
     THEN [url |-> requestURL(pr.url), file |-> FALSE, err |-> httpStatusError(status)]
     ELSE [url |-> requestURL(pr.url), file |-> TRUE, err |-> NoErr]

HttpStatuses == {0, 200, 204, 301, 400, 401, 402, 403, 404, 500}
UriAuthorities ==
  { <<"http", <<"h">>>>, <<"https", <<"h">>>>, <<"http", <<>>>>,
    <<"file", <<>>>>, <<"file", <<"localhost">>>>, <<"file", <<"h">>>>,
    <<"ipfs", <<"c">>>>, <<"ipfs", <<>>>> }
UriPaths ==
  { <<>>, <<"/">>, <<"/", "a">>, <<"/", "a", "/", "b">>, <<"/", "a", "/">>,
    <<"/", "a", "/", "/", "b">>, <<"/", ".", ".", "/", "a">>,
    <<"/", "a", "/", ".", ".", "/", "b">>, <<"/", "/", "a">>, <<"/", "a", " ", "b">> }
UriQueries ==
  { <<FALSE, <<>>>>, <<TRUE, <<>>>>, <<FALSE, <<"x">>>>, <<FALSE, <<"x", "/">>>>,
    <<FALSE, <<"x", "/", "/", "y">>>> }
UriFragments == {<<>>, <<"f">>}
UriURLs ==
  { URL(a[1], a[2], p, q[1], q[2], f) :
      a \in UriAuthorities, p \in UriPaths, q \in UriQueries, f \in UriFragments }
UriStrings ==
  { <<"a">>, <<"/", "a">>, <<".", ".", "/", "a">>, <<"a", "/", "b", "?", "x">>,
    <<".">>, <<>>, <<"%">>, <<"a", "%20", "b">>, <<"a", "#", "f">>, <<"a", "/">> }
HttpExtraNames == {<<"%">>}

InitUri ==
  /\ uProto \in UriProtos
  /\ uVia \in {"FileSystem", "ParseURI"}
  /\ uStr \in IF uVia = "ParseURI" THEN UriStrings ELSE {<<>>}
  /\ uUri \in IF uVia = "FileSystem" THEN UriURLs ELSE {NoURL}
  /\ uStatus \in IF uProto = "http" /\ uVia = "FileSystem" THEN HttpStatuses ELSE {0}
  /\ uPc = "idle"
  /\ uBase = NoURL
  /\ uPath = <<>>
  /\ uFsErr = NoErr
  /\ uName = <<>>
  /\ uUrl = NoURL
  /\ uRes = [file |-> FALSE, err |-> NoErr]
  /\ BaseUnused
  /\ ProtoUnused
  /\ SumUnused
  /\ IpfsUnused
  /\ GzipUnused
  /\ MuxUnused
  /\ StackUnused
  /\ EquivUnused
  /\ TryUnused
  /\ FwdUnused
  /\ BodyUnused
  /\ HandlesUnused

\* The call of the protocol's FileSystem with a URL.
UriFileSystem ==
  /\ uPc = "idle"
  /\ uVia = "FileSystem"
  /\ LET r == FileSystem(uProto, uUri)
     IN /\ uBase' = r.base
        /\ uPath' = r.path
        /\ uFsErr' = r.err
        /\ uPc' = IF r.err = NoErr /\ uProto = "http" THEN "resolved" ELSE "done"
  /\ UNCHANGED <<uProto, uVia, uStr, uUri, uStatus, uName, uUrl, uRes, uriOthers>>

\* The call of ParseURI with a string.
UriParseURI ==
  /\ uPc = "idle"
  /\ uVia = "ParseURI"
  /\ LET r == ParseURI(uProto, uStr)
     IN /\ uUri' = r.url
        /\ uBase' = r.fs.base
        /\ uPath' = r.fs.path
        /\ uFsErr' = r.fs.err
        /\ uPc' = "done"
  /\ UNCHANGED <<uProto, uVia, uStr, uStatus, uName, uUrl, uRes, uriOthers>>

\* The call of Open on the httpFS, with the path FileSystem returned or
\* with another name.
HttpOpen ==
  /\ uPc = "resolved"
  /\ \E name \in {uPath} \cup HttpExtraNames :
       LET r == httpOpen(uBase, name, uStatus)
       IN /\ uName' = name
          /\ uUrl' = r.url
          /\ uRes' = [file |-> r.file, err |-> r.err]
  /\ uPc' = "done"
  /\ UNCHANGED <<uProto, uVia, uStr, uUri, uStatus, uBase, uPath, uFsErr, uriOthers>>

NextUri ==
  \/ UriFileSystem
  \/ UriParseURI
  \/ HttpOpen

SpecUri == InitUri /\ [][NextUri]_vars

(***************************************************************************)
(* mux (fsutil/v2/mux.go): a map from schemes to factories of protocols.   *)
(* A factory fails or produces one of the protocols above.                 *)
(***************************************************************************)
errMuxNilURI == Leaf("fsutil.mux: nil URI")
errMuxUnknownScheme == Leaf("fsutil.mux: unknown scheme")
errMuxUnknownSchemeFn(scheme) == Wrap(scheme, errMuxUnknownScheme)
errFactory == Leaf("factory failed")

MuxSchemes == {"file", "http", "ipfs"}
MuxFactories == {"none", "fails", "file", "http", "fs"}
MuxURLs ==
  { URL(sch, h, p, FALSE, q, <<>>) :
      sch \in MuxSchemes \cup {"", "ftp"},
      h \in {<<>>, <<"h">>},
      p \in {<<"/", "a">>, <<"/", "/", "a">>},
      q \in {<<>>, <<"x">>} }

\* A scheme as the mux takes it from the URL.
muxSchemeAsGiven(uri) == uri.scheme

\* The scheme the mux looks up: "file" stands for the empty scheme.
muxScheme(uri) == IF uri.scheme = "" THEN "file" ELSE uri.scheme

\* mux.FileSystem: the factories invoked and the result.
muxFileSystem(ps, isNil, uri0) ==
  LET scheme == muxScheme(uri0)
      uri == [uri0 EXCEPT !.scheme = scheme]
      f == IF scheme \in DOMAIN ps THEN ps[scheme] ELSE "none"
  IN IF isNil
     THEN [calls |-> <<>>, res |-> [base |-> NoURL, path |-> <<>>, err |-> errMuxNilURI]]
     ELSE IF f = "none"
     THEN [calls |-> <<>>,
           res |-> [base |-> NoURL, path |-> <<>>, err |-> errMuxUnknownSchemeFn(scheme)]]
     ELSE IF f = "fails"
     THEN [calls |-> <<scheme>>, res |-> [base |-> NoURL, path |-> <<>>, err |-> errFactory]]
     ELSE [calls |-> <<scheme>>, res |-> FileSystem(f, uri)]

\* The caller's URL after mux.FileSystem: the mux assigns the scheme through
\* the pointer it was given (uri.Scheme = "file"); the protocols it calls
\* work on the same pointer and only read it (uriSplit copies).
muxUriAfter(isNil, uri0) ==
  IF isNil THEN uri0 ELSE [uri0 EXCEPT !.scheme = muxScheme(uri0)]

InitMux ==
  /\ mPs \in [MuxSchemes -> MuxFactories]
  /\ mNil \in BOOLEAN
  /\ mUri \in IF mNil THEN {NoURL} ELSE MuxURLs
  /\ mPc = "idle"
  /\ mCalls = <<>>
  /\ mRes = [base |-> NoURL, path |-> <<>>, err |-> NoErr]
  /\ mCaller = mUri
  /\ BaseUnused
  /\ ProtoUnused
  /\ SumUnused
  /\ IpfsUnused
  /\ GzipUnused
  /\ UriUnused
  /\ StackUnused
  /\ EquivUnused
  /\ TryUnused
  /\ FwdUnused
  /\ BodyUnused
  /\ HandlesUnused

\* The call of FileSystem on the mux.
MuxFileSystem ==
  /\ mPc = "idle"
  /\ LET r == muxFileSystem(mPs, mNil, mUri)
     IN /\ mCalls' = r.calls
        /\ mRes' = r.res
  /\ mCaller' = muxUriAfter(mNil, mUri)
  /\ mPc' = "done"
  /\ UNCHANGED <<mPs, mNil, mUri, muxOthers>>

NextMux ==
  \/ MuxFileSystem

SpecMux == InitMux /\ [][NextMux]_vars

(***************************************************************************)
(* Stacked adapters: Open on a stack of retryFS, cacheFS, gzipFS,          *)
(* checksumFS and chainFS over one inner filesystem whose Open fails.      *)
(* Each layer returns what its Open returns when the layer below fails; a  *)
(* chainFS has other filesystems before and after the stack, all failing.  *)
(***************************************************************************)
MaxStackDepth == 3
StackAdapters == {"retry", "cache", "gzip", "checksum", "chain"}
StackInnerErrs ==
  { ErrNotExist,
    PathError("open", ErrNotExist),
    errHTTPFSRequestErrorFn(ErrNotExist),
    errHTTPFSRequestErrorFn(ErrPermission),
    errHTTPFSRequestErrorCode,
    errTransient }
StackChainOthers ==
  { [before |-> b, after |-> a] :
      b \in {<<>>, <<errTransient>>},
      a \in {<<>>, <<errHTTPFSRequestErrorCode, errTransient>>} }

\* The loop of chainFS.Open over filesystems that all fail.
RECURSIVE chainOpenErr(_, _, _)
chainOpenErr(es, i, err) ==
  IF i > Len(es) THEN errChainFSFn(err)
  ELSE chainOpenErr(es, i + 1, errutilAppend(err, <<es[i]>>))

\* A layer that formats the error below it into its message.
StackLayerErrFormatted(adapter, e, others) == Leaf(adapter)

\* The error of a layer's Open when the Open of the layer below fails with e.
StackLayerErr(adapter, e, others) ==
  CASE adapter = "retry" -> errRetryFSFn(e)
    [] adapter = "cache" -> errCacheFSFn(e)
    [] adapter = "gzip" ->
         gzipOpen(TRUE, <<defaultGzipExt>>, 2, NameA,
                  [err |-> e, bytes |-> <<>>, shape |-> "eofAlone", gshape |-> "eofAlone"]).err
    [] adapter = "checksum" ->
         checksumOpen("AfterOpen", SumName(NameA, FALSE, FALSE, <<>>),
                      [err |-> e, data |-> <<>>, shape |-> "eofAlone", statErr |-> FALSE]).err
    [] adapter = "chain" -> chainOpenErr(others.before \o <<e>> \o others.after, 1, NoErr)

InitStack ==
  /\ wInner \in StackInnerErrs
  /\ wLayers = <<>>
  /\ wErr = wInner
  /\ BaseUnused
  /\ ProtoUnused
  /\ SumUnused
  /\ IpfsUnused
  /\ GzipUnused
  /\ UriUnused
  /\ MuxUnused
  /\ EquivUnused
  /\ TryUnused
  /\ FwdUnused
  /\ BodyUnused
  /\ HandlesUnused

\* One more adapter is put on the stack and Open is called on it.
StackWrap ==
  /\ Len(wLayers) < MaxStackDepth
  /\ \E adapter \in StackAdapters, others \in StackChainOthers :
       /\ adapter # "chain" => others = [before |-> <<>>, after |-> <<>>]
       /\ wLayers' = Append(wLayers, adapter)
       /\ wErr' = StackLayerErr(adapter, wErr, others)
  /\ UNCHANGED <<wInner, stackOthers>>

NextStack ==
  \/ StackWrap

SpecStack == InitStack /\ [][NextStack]_vars

(***************************************************************************)
(* ReadFile and Open of one adapter over the same inner filesystems.  An   *)
(* inner filesystem has no ReadFile of its own: fs.ReadFile opens the file *)
(* and reads it to its end.  Both calls start from the same cache          *)
(* directory and find the same answers, attempt after attempt.             *)
(***************************************************************************)
EquivAdapters == {"chain", "retry", "cache", "gzip", "checksum"}
EquivInners ==
  {[err |-> e, data |-> <<1, 1>>, shape |-> "eofAlone"] :
     e \in {PathError("open", ErrNotExist), errTransient}}
    \cup {[err |-> NoErr, data |-> dt, shape |-> sh] :
            dt \in {<<1, 1>>, gzipData(<<1>>), gzipData(<<1, 2, 3>>)}, sh \in InnerShapes}
EquivCfg(mode, sumName, gzName, checkExt, limit, dir, hit, attempts) ==
  [mode |-> mode, sumName |-> sumName, gzName |-> gzName, checkExt |-> checkExt,
   limit |-> limit, dir |-> dir, hit |-> hit, attempts |-> attempts]
EquivSumNames ==
  { SumName(NameA, FALSE, FALSE, <<>>),
    SumName(NameA, TRUE, FALSE, <<Param("checksum", HexOf(hashSum(<<1, 1>>)))>>),
    SumName(NameA, TRUE, FALSE, <<Param("checksum", HexOf(hashSum(<<2, 2>>)))>>) }
EquivCfgs(adapter) ==
  CASE adapter = "checksum" ->
         {EquivCfg(m, n, NameA, TRUE, 2, TRUE, FALSE, 1) : m \in SumModes, n \in EquivSumNames}
    [] adapter = "gzip" ->
         {EquivCfg("AfterRead", SumName(NameA, FALSE, FALSE, <<>>), n, c, l, TRUE, FALSE, 1) :
            n \in {NameA, <<"a", ".", "g", "z">>}, c \in BOOLEAN, l \in GzipLimits}
    [] adapter = "cache" ->
         {EquivCfg("AfterRead", SumName(NameA, FALSE, FALSE, <<>>), NameA, TRUE, 2, dr, h, 1) :
            dr \in BOOLEAN, h \in BOOLEAN}
    [] adapter = "retry" ->
         {EquivCfg("AfterRead", SumName(NameA, FALSE, FALSE, <<>>), NameA, TRUE, 2, TRUE, FALSE, n) :
            n \in {0, 1, 2}}
    [] adapter = "chain" ->
         {EquivCfg("AfterRead", SumName(NameA, FALSE, FALSE, <<>>), NameA, TRUE, 2, TRUE, FALSE, 1)}


\* What the caller has after Open, reading the file to its end and Close;
\* Read on a nil file, returned with a nil error, panics.
errNilFilePanic == Leaf("panic: nil fs.File")
openReadClose(o) ==
  IF o.err # NoErr THEN Res(<<>>, o.err)
  ELSE IF ~o.file.open THEN Res(<<>>, errNilFilePanic)
  ELSE ioReadAll(o.file.reads)

\* A chainFS.ReadFile that gives up at the first filesystem that fails.
RECURSIVE chainReadFileFirstOnly(_, _, _, _)
chainReadFileFirstOnly(rs, perm, k, err) ==
  IF k > Len(perm) THEN Res(<<>>, errChainFSFn(err))
  ELSE LET i == RangeIndex(perm, k)
       IN IF rs[i].err = NoErr THEN Res(rs[i].val, NoErr)
          ELSE Res(<<>>, errChainFSFn(rs[i].err))

\* chainFS.ReadFile over the results of fs.ReadFile on its filesystems.
RECURSIVE chainReadFileFrom(_, _, _, _)
chainReadFileFrom(rs, perm, k, err) ==
  IF k > Len(perm) THEN Res(<<>>, errChainFSFn(err))
  ELSE LET i == RangeIndex(perm, k)
       IN IF rs[i].err = NoErr THEN Res(rs[i].val, NoErr)
          ELSE chainReadFileFrom(rs, perm, k + 1, errutilAppend(err, <<rs[i].err>>))

\* retry.Try2 under a context that does not end, over what the attempts
\* find: rs[i + 1] is what the inner call of iteration i returns, zero the
\* zero value of the result, res the results of the last call of f.
RECURSIVE retryTry2(_, _, _, _, _)
retryTry2(rs, attempts, i, zero, res) ==
  IF ~TryLoopCond(attempts, i) THEN res
  ELSE LET r == rs[i + 1]
       IN IF r.err = NoErr THEN r
          ELSE IF ~isRetryable(r.err) THEN [r EXCEPT !.val = zero, !.err = errRetryFSFn(r.err)]
          ELSE retryTry2(rs, attempts, i + 1, zero, [r EXCEPT !.err = errRetryFSFn(r.err)])

\* cacheFS.Open and cacheFS.ReadFile of a single caller: the entry is
\* served when it exists; otherwise the inner result b is written to the
\* entry, which needs the directory, and read back.
cacheServe(dir, hit, entry, b) ==
  IF dir /\ hit THEN Res(entry, NoErr)
  ELSE IF b.err # NoErr THEN Res(<<>>, errCacheFSFn(b.err))
  ELSE IF ~dir THEN Res(<<>>, errCacheFSFn(PathError("open", ErrNotExist)))
  ELSE Res(b.val, NoErr)

GzInnerOf(inner) ==
  [err |-> inner.err, bytes |-> inner.data, shape |-> inner.shape,
   gshape |-> IF inner.shape = "eofWithData" THEN "eofWithData" ELSE "eofAlone"]
SumInnerOf(inner) ==
  [err |-> inner.err, data |-> inner.data, shape |-> inner.shape, statErr |-> FALSE]

\* Open on the adapter, followed by reading to the end and Close.
equivOpen(adapter, cfg, inners) ==
  CASE adapter = "chain" ->
         openReadClose(chainOpenFrom([i \in 1..Len(inners) |-> innerOpen(inners[i])],
                                     CHOOSE perm \in iter(Len(inners), FALSE) : TRUE, 1, NoErr))
    [] adapter = "retry" ->
         LET r == retryTry2([i \in 1..Len(inners) |->
                               [val |-> innerOpen(inners[i]).file, err |-> innerOpen(inners[i]).err]],
                            cfg.attempts, 0, NoFile, [val |-> NoFile, err |-> NoErr])
         IN openReadClose([file |-> r.val, err |-> r.err])
    [] adapter = "cache" ->
         cacheServe(cfg.dir, cfg.hit, <<2, 2>>, openReadClose(innerOpen(inners[1])))
    [] adapter = "gzip" ->
         openReadClose(gzipOpen(cfg.checkExt, <<defaultGzipExt>>, cfg.limit, cfg.gzName,
                                GzInnerOf(inners[1])))
    [] adapter = "checksum" ->
         openReadClose(checksumOpen(cfg.mode, cfg.sumName, SumInnerOf(inners[1])))

\* ReadFile on the adapter.
equivReadFile(adapter, cfg, inners) ==
  CASE adapter = "chain" ->
         chainReadFileFrom([i \in 1..Len(inners) |-> fsReadFile(inners[i])],
                           CHOOSE perm \in iter(Len(inners), FALSE) : TRUE, 1, NoErr)
    [] adapter = "retry" ->
         retryTry2([i \in 1..Len(inners) |-> fsReadFile(inners[i])],
                   cfg.attempts, 0, <<>>, Res(<<>>, NoErr))
    [] adapter = "cache" ->
         cacheServe(cfg.dir, cfg.hit, <<2, 2>>, fsReadFile(inners[1]))
    [] adapter = "gzip" ->
         gzipReadFile(cfg.checkExt, <<defaultGzipExt>>, cfg.limit, cfg.gzName,
                      GzInnerOf(inners[1])).res
    [] adapter = "checksum" ->
         checksumReadFile(cfg.mode, cfg.sumName, SumInnerOf(inners[1]))

InitEquiv ==
  /\ eAdapter \in EquivAdapters
  /\ eCfg \in EquivCfgs(eAdapter)
  /\ eInners \in IF eAdapter \in {"chain", "retry"}
                 THEN [1..2 -> EquivInners]
                 ELSE [1..1 -> EquivInners]
  /\ eDone = {}
  /\ eOpen = Res(<<>>, NoErr)
  /\ eReadFile = Res(<<>>, NoErr)
  /\ BaseUnused
  /\ ProtoUnused
  /\ SumUnused
  /\ IpfsUnused
  /\ GzipUnused
  /\ UriUnused
  /\ MuxUnused
  /\ StackUnused
  /\ TryUnused
  /\ FwdUnused
  /\ BodyUnused
  /\ HandlesUnused

\* Open is called, the file read to its end and closed.
EquivOpenReadClose ==
  /\ "Open" \notin eDone
  /\ eOpen' = equivOpen(eAdapter, eCfg, eInners)
  /\ eDone' = eDone \cup {"Open"}
  /\ UNCHANGED <<eAdapter, eCfg, eInners, eReadFile, equivOthers>>

\* ReadFile is called.
EquivReadFile ==
  /\ "ReadFile" \notin eDone
  /\ eReadFile' = equivReadFile(eAdapter, eCfg, eInners)
  /\ eDone' = eDone \cup {"ReadFile"}
  /\ UNCHANGED <<eAdapter, eCfg, eInners, eOpen, equivOthers>>

NextEquiv ==
  \/ EquivOpenReadClose
  \/ EquivReadFile

SpecEquiv == InitEquiv /\ [][NextEquiv]_vars

(***************************************************************************)
(* retry.Try and its helpers Try1, Try2, TryErr, Try1Err, Try2Err          *)
(* (retry/retry.go) with an arbitrary function f.                          *)
(***************************************************************************)
MaxDelay == 2

TryFns == {"Try", "Try1", "Try2", "TryErr", "Try1Err", "Try2Err"}
TryErrFns == {"TryErr", "Try1Err", "Try2Err"}

errF == Leaf("f failed")

\* What a call of f can return: the helpers without error take the flag
\* from f, the helpers with error derive it from err == nil.
TryOutcomes(fn) ==
  IF fn \in TryErrFns
  THEN {[val |-> "v", ok |-> TRUE, err |-> NoErr], [val |-> "p", ok |-> FALSE, err |-> errF]}
  ELSE {[val |-> "v", ok |-> TRUE, err |-> NoErr], [val |-> "p", ok |-> FALSE, err |-> NoErr]}

\* The ctx.Err() check that never sees the context end.
TryCtxDoneIgnored(err) == FALSE

\* The ctx.Err() != nil check at the head of each iteration.
TryCtxDone(err) == err # NoErr

\* A loop that does not return when f returns true.
TryAfterCallIgnoresTrue(ok, attempts, i) ==
  IF TryDelayCond(attempts, i) THEN "delay" ELSE "next"

\* Where the loop body goes once f returned ok.
TryAfterCall(ok, attempts, i) ==
  IF ok THEN "after"
  ELSE IF TryDelayCond(attempts, i) THEN "delay"
  ELSE "next"

\* The select: the wait is over when the timer fired or the context is done.
TryWaitOver(ctx, timer) == ctx # NoErr \/ timer = 0

\* What the helper returns once Try returned ok: the variables the closure
\* assigned in the last call of f (zero values if f was never called), and
\* for the helpers with error the context's error if there is one.
TryResult(fn, ok, hist, ctx) ==
  LET last == IF hist = <<>> THEN [val |-> Nil, ok |-> FALSE, err |-> NoErr]
              ELSE hist[Len(hist)]
  IN IF fn = "Try" THEN [ok |-> ok, val |-> Nil, err |-> NoErr]
     ELSE IF fn \in TryErrFns
     THEN [ok |-> FALSE, val |-> IF fn = "TryErr" THEN Nil ELSE last.val,
           err |-> IF ctx # NoErr THEN ctx ELSE last.err]
     ELSE [ok |-> FALSE, val |-> last.val, err |-> NoErr]

InitTry ==
  /\ tFn \in TryFns
  /\ tAttempts \in -1..MaxAttempts
  /\ tDelay \in 0..MaxDelay
  /\ tCtx \in {NoErr, Canceled}
  /\ tPc = "loop"
  /\ tI = 0
  /\ tRunning = 0
  /\ tHist = <<>>
  /\ tTimer = 0
  /\ tDelays = 0
  /\ tEndI = -1
  /\ tEndPc = "before"
  /\ tOk = FALSE
  /\ tRet = [ok |-> FALSE, val |-> Nil, err |-> NoErr]
  /\ BaseUnused
  /\ ProtoUnused
  /\ SumUnused
  /\ IpfsUnused
  /\ GzipUnused
  /\ UriUnused
  /\ MuxUnused
  /\ StackUnused
  /\ EquivUnused
  /\ FwdUnused
  /\ BodyUnused
  /\ HandlesUnused

\* Head of an iteration: the loop condition, then the ctx.Err() check, then
\* f is called.
TryHead ==
  /\ tPc = "loop"
  /\ IF ~TryLoopCond(tAttempts, tI) \/ TryCtxDone(tCtx)
     THEN /\ tPc' = "after"
          /\ tOk' = FALSE
          /\ UNCHANGED tRunning
     ELSE /\ Len(tHist) < MaxCalls
          /\ tPc' = "call"
          /\ tRunning' = tRunning + 1
          /\ UNCHANGED tOk
  /\ UNCHANGED <<tFn, tAttempts, tDelay, tCtx, tI, tHist, tTimer, tDelays, tEndI, tEndPc, tRet, tryOthers>>

\* f returns: Try returns true, or starts the timer, or goes on.
TryCallReturn ==
  /\ tPc = "call"
  /\ \E o \in TryOutcomes(tFn) :
       /\ tHist' = Append(tHist, o)
       /\ tPc' = TryAfterCall(o.ok, tAttempts, tI)
       /\ tOk' = (tPc' = "after")
       /\ tTimer' = IF tPc' = "delay" THEN tDelay ELSE tTimer
  /\ tRunning' = tRunning - 1
  /\ UNCHANGED <<tFn, tAttempts, tDelay, tCtx, tI, tDelays, tEndI, tEndPc, tRet, tryOthers>>

\* Time passes while the select waits.
TryDelayTick ==
  /\ tPc = "delay"
  /\ tTimer > 0
  /\ tTimer' = tTimer - 1
  /\ UNCHANGED <<tFn, tAttempts, tDelay, tCtx, tPc, tI, tRunning, tHist, tDelays, tEndI, tEndPc, tOk, tRet, tryOthers>>

\* The select returns.
TryDelayEnd ==
  /\ tPc = "delay"
  /\ TryWaitOver(tCtx, tTimer)
  /\ tPc' = "next"
  /\ tDelays' = tDelays + 1
  /\ UNCHANGED <<tFn, tAttempts, tDelay, tCtx, tI, tRunning, tHist, tTimer, tEndI, tEndPc, tOk, tRet, tryOthers>>

\* i++ at the end of the loop body.
TryIncrement ==
  /\ tPc = "next"
  /\ tI' = tI + 1
  /\ tPc' = "loop"
  /\ UNCHANGED <<tFn, tAttempts, tDelay, tCtx, tRunning, tHist, tTimer, tDelays, tEndI, tEndPc, tOk, tRet, tryOthers>>

\* Try has returned; the helper returns.
TryReturn ==
  /\ tPc = "after"
  /\ tRet' = TryResult(tFn, tOk, tHist, tCtx)
  /\ tPc' = "done"
  /\ UNCHANGED <<tFn, tAttempts, tDelay, tCtx, tI, tRunning, tHist, tTimer, tDelays, tEndI, tEndPc, tOk, tryOthers>>

\* The context ends (cancelled or deadline exceeded) while the helper runs.
TryCtxEnd ==
  /\ tCtx = NoErr
  /\ tPc # "done"
  /\ tCtx' \in {Canceled, DeadlineExceeded}
  /\ tEndI' = tI
  /\ tEndPc' = tPc
  /\ UNCHANGED <<tFn, tAttempts, tDelay, tPc, tI, tRunning, tHist, tTimer, tDelays, tOk, tRet, tryOthers>>

NextTry ==
  \/ TryHead
  \/ TryCallReturn
  \/ TryDelayTick
  \/ TryDelayEnd
  \/ TryIncrement
  \/ TryReturn
  \/ TryCtxEnd

SpecTry == InitTry /\ [][NextTry]_vars

(***************************************************************************)
(* checksumFS.Stat, Glob and ReadDir (fsutil checksum.go) over the helpers *)
(* fs.Stat, fs.Glob and fs.ReadDir of io/fs.                               *)
(***************************************************************************)
MaxFrames == 4

FwdOps == {"Stat", "Glob", "ReadDir"}
FwdInnerAnswers == {Res(<<"a">>, NoErr), Res(<<>>, ErrNotExist), Res(<<>>, errTransient)}

\* The filesystem a checksumFS method hands to the io/fs helper: the
\* checksumFS itself (c), not its inner filesystem (c.fs).
checksumHelperArg(op) == "c"

\* fs.Stat, fs.Glob and fs.ReadDir: a filesystem that implements the
\* operation is asked through its own method.  checksumFS implements all
\* three; the inner filesystem answers by itself.
fsHelper(fsys) == IF fsys = "c" THEN "method" ELSE "inner"

InitFwd ==
  /\ fOp \in FwdOps
  /\ fName \in SumNames
  /\ fInner \in FwdInnerAnswers
  /\ fPc = "idle"
  /\ fDepth = 0
  /\ fRes = Res(<<>>, NoErr)
  /\ BaseUnused
  /\ ProtoUnused
  /\ SumUnused
  /\ IpfsUnused
  /\ GzipUnused
  /\ UriUnused
  /\ MuxUnused
  /\ StackUnused
  /\ EquivUnused
  /\ TryUnused
  /\ BodyUnused
  /\ HandlesUnused

\* The caller calls the method of checksumFS.
FwdCall ==
  /\ fPc = "idle"
  /\ fPc' = "method"
  /\ fDepth' = 1
  /\ UNCHANGED <<fOp, fName, fInner, fRes, fwdOthers>>

\* The method calls the io/fs helper with its argument.
FwdMethod ==
  /\ fPc = "method"
  /\ fPc' = "helper"
  /\ UNCHANGED <<fOp, fName, fInner, fDepth, fRes, fwdOthers>>

\* The helper dispatches: to the method of the filesystem it was given (a
\* new frame, until the goroutine's stack is exhausted and the program
\* dies), or to the inner filesystem, whose answer is returned.
FwdHelper ==
  /\ fPc = "helper"
  /\ IF fsHelper(checksumHelperArg(fOp)) = "method"
     THEN IF fDepth < MaxFrames
          THEN /\ fPc' = "method"
               /\ fDepth' = fDepth + 1
               /\ UNCHANGED fRes
          ELSE /\ fPc' = "overflow"
               /\ UNCHANGED <<fDepth, fRes>>
     ELSE /\ fPc' = "done"
          /\ fRes' = fInner
          /\ UNCHANGED fDepth
  /\ UNCHANGED <<fOp, fName, fInner, fwdOthers>>

NextFwd ==
  \/ FwdCall
  \/ FwdMethod
  \/ FwdHelper

SpecFwd == InitFwd /\ [][NextFwd]_vars

(***************************************************************************)
(* httpFS.Open (fsutil/http.go) and the body of the response it receives.  *)
(***************************************************************************)
BodyBase == URL("http", <<"h">>, <<>>, FALSE, <<>>, <<>>)
BodyNames ==
  { <<"a">>, <<"a", "/", "b">>, <<"a", "?", "x">>, <<".">>, <<"%">>, <<"/", "a">> }

\* The response body once httpFS.Open returned r: client.Do hands over an
\* open body with every response, and no path of Open closes it.
httpBodyAfterOpen(r, status) ==
  IF r.url = NoURL \/ status = 0 THEN "none" ELSE "open"

\* file.Close closes the reader, which is the response body.
fileClose(body) == "closed"

InitBody ==
  /\ bName \in BodyNames
  /\ bStatus \in HttpStatuses
  /\ bPc = "idle"
  /\ bBody = "none"
  /\ bRes = [file |-> FALSE, err |-> NoErr]
  /\ BaseUnused
  /\ ProtoUnused
  /\ SumUnused
  /\ IpfsUnused
  /\ GzipUnused
  /\ UriUnused
  /\ MuxUnused
  /\ StackUnused
  /\ EquivUnused
  /\ TryUnused
  /\ FwdUnused
  /\ HandlesUnused

\* httpFS.Open is called and returns.
BodyOpen ==
  /\ bPc = "idle"
  /\ LET r == httpOpen(BodyBase, bName, bStatus)
     IN /\ bRes' = [file |-> r.file, err |-> r.err]
        /\ bBody' = httpBodyAfterOpen(r, bStatus)
  /\ bPc' = "returned"
  /\ UNCHANGED <<bName, bStatus, bodyOthers>>

\* The caller closes the file that Open returned.
BodyFileClose ==
  /\ bPc = "returned"
  /\ bRes.file
  /\ bBody' = fileClose(bBody)
  /\ bPc' = "closed"
  /\ UNCHANGED <<bName, bStatus, bRes, bodyOthers>>

NextBody ==
  \/ BodyOpen
  \/ BodyFileClose

SpecBody == InitBody /\ [][NextBody]_vars

(***************************************************************************)
(* The inner files opened by checksumFS.Open and gzipFS.Open: which of     *)
(* them the returned file closes.                                          *)
(***************************************************************************)
HandlesCfg(mode, sumName, checkExt, gzName) ==
  [mode |-> mode, sumName |-> sumName, checkExt |-> checkExt, gzName |-> gzName]
HandlesCfgs(adapter) ==
  IF adapter = "checksum"
  THEN {HandlesCfg(m, n, TRUE, NameA) : m \in SumModes, n \in EquivSumNames}
  ELSE {HandlesCfg("AfterRead", SumName(NameA, FALSE, FALSE, <<>>), c, n) :
          c \in BOOLEAN, n \in GzipNames}
HandlesInners(adapter) ==
  IF adapter = "checksum" THEN SumInners
  ELSE {i \in GzipInners : i.shape = "eofAlone" /\ i.gshape = "eofAlone"}

\* checksumFS.Open: the inner file it opens and whether the file it returns
\* closes it.  The inner file itself and a checksumFile close it; the file
\* over the bytes read in verify-after-open mode has a no-op Close, and no
\* error path closes the inner file.
checksumOpenFiles(mode, name, inner) ==
  LET p == checksumParam(name)
  IN IF inner.err # NoErr THEN [files |-> <<>>, held |-> {}]
     ELSE IF p.h = ZeroHash \/ mode = "AfterRead" THEN [files |-> <<"open">>, held |-> {1}]
     ELSE [files |-> <<"open">>, held |-> {}]

\* gzipFS.Open: the inner files it opens and which of them the file it
\* returns closes.  Without decompression the inner file is opened a second
\* time and the second one returned; gzipFile.Close closes the inner file;
\* when gzip.NewReader fails nothing closes it.
gzipOpenFiles(checkExt, exts, name, inner) ==
  IF validPath("open", name) # NoErr \/ inner.err # NoErr THEN [files |-> <<>>, held |-> {}]
  ELSE IF ~shouldDecompress(checkExt, exts, name)
  THEN [files |-> <<"open", "open">>, held |-> {2}]
  ELSE IF gzipNewReader(inner.bytes) # NoErr THEN [files |-> <<"open">>, held |-> {}]
  ELSE [files |-> <<"open">>, held |-> {1}]

InitHandles ==
  /\ hAdapter \in {"checksum", "gzip"}
  /\ hCfg \in HandlesCfgs(hAdapter)
  /\ hInner \in HandlesInners(hAdapter)
  /\ hPc = "idle"
  /\ hFiles = <<>>
  /\ hHeld = {}
  /\ hErr = NoErr
  /\ BaseUnused
  /\ ProtoUnused
  /\ SumUnused
  /\ IpfsUnused
  /\ GzipUnused
  /\ UriUnused
  /\ MuxUnused
  /\ StackUnused
  /\ EquivUnused
  /\ TryUnused
  /\ FwdUnused
  /\ BodyUnused

\* Open of the adapter is called and returns.
HandlesOpen ==
  /\ hPc = "idle"
  /\ LET fl == IF hAdapter = "checksum"
               THEN checksumOpenFiles(hCfg.mode, hCfg.sumName, hInner)
               ELSE gzipOpenFiles(hCfg.checkExt, <<defaultGzipExt>>, hCfg.gzName, hInner)
         err == IF hAdapter = "checksum"
                THEN checksumOpen(hCfg.mode, hCfg.sumName, hInner).err
                ELSE gzipOpen(hCfg.checkExt, <<defaultGzipExt>>, 2, hCfg.gzName, hInner).err
     IN /\ hFiles' = fl.files
        /\ hHeld' = fl.held
        /\ hErr' = err
  /\ hPc' = "returned"
  /\ UNCHANGED <<hAdapter, hCfg, hInner, handlesOthers>>

\* The caller closes the file that Open returned.
HandlesFileClose ==
  /\ hPc = "returned"
  /\ hErr = NoErr
  /\ hFiles' = [i \in 1..Len(hFiles) |-> IF i \in hHeld THEN "closed" ELSE hFiles[i]]
  /\ hPc' = "closed"
  /\ UNCHANGED <<hAdapter, hCfg, hInner, hHeld, hErr, handlesOthers>>

NextHandles ==
  \/ HandlesOpen
  \/ HandlesFileClose

SpecHandles == InitHandles /\ [][NextHandles]_vars

(***************************************************************************)
(* Properties of retryFS.                                                  *)
(***************************************************************************)
IsSuccess(r) == r.err = NoErr
IsRetryableFailure(r) ==
  /\ r.err # NoErr
  /\ ~ErrorsIs(r.err, ErrNotExist)
  /\ ~ErrorsIs(r.err, ErrPermission)
  /\ ~ErrorsIs(r.err, ErrBadPattern)
  /\ ~isPathError(r.err)
IsPermanentFailure(r) ==
  \/ ErrorsIs(r.err, ErrNotExist)
  \/ ErrorsIs(r.err, ErrPermission)
  \/ ErrorsIs(r.err, ErrBadPattern)
  \/ isPathError(r.err)
IsIntegrityFailure(r) ==
  \/ ErrorsIs(r.err, errChecksumFSMismatch)
  \/ ErrorsIs(r.err, ErrUnexpectedEOF)
LastOf(h) == h[Len(h)]

\* C1: with attempts N >= 1 and a context that never ends, a call whose
\* inner operation failed with retryable errors k times and then succeeded
\* returns the inner result without error after exactly k+1 inner calls,
\* k < N; a call whose inner operation only ever failed with retryable
\* errors returns an error after exactly N inner calls.
C1_RetryUntilSuccessOrExhaustion ==
  (/\ rPc = "done"
   /\ rAttempts >= 1
   /\ ctxErr = NoErr
   /\ rHist # <<>>
   /\ \A j \in 1..(Len(rHist) - 1) : IsRetryableFailure(rHist[j]))
  =>
  /\ IsSuccess(LastOf(rHist)) =>
       /\ rRes = Res(LastOf(rHist).val, NoErr)
       /\ rCalls = Len(rHist)
       /\ Len(rHist) - 1 < rAttempts
  /\ IsRetryableFailure(LastOf(rHist)) =>
       /\ rRes.err # NoErr
       /\ rCalls = rAttempts

C1_Witness ==
  /\ rPc = "done"
  /\ rAttempts = 3
  /\ ctxErr = NoErr
  /\ rCalls = 3
  /\ Len(rHist) = 3
  /\ IsRetryableFailure(rHist[1])
  /\ IsRetryableFailure(rHist[2])
  /\ IsSuccess(rHist[3])
  /\ rRes = Res("r1", NoErr)

C3_ReturnsContextError ==
  (/\ rPc = "done"
   /\ ctxErr # NoErr
   /\ RetryValid(rOp, rName) = NoErr
   /\ \A j \in 1..Len(rHist) : ~IsSuccess(rHist[j]))
  => ErrorsIs(rRes.err, ctxErr)

\* C4 (as claimed): an integrity failure of the inner operation is not
\* retried: the inner operation is called once and that error is returned.
C4_IntegrityNotRetried ==
  (/\ rPc = "done"
   /\ rHist # <<>>
   /\ IsIntegrityFailure(rHist[1]))
  =>
  /\ rCalls = 1
  /\ rRes.err = errRetryFSFn(rHist[1].err)

\* C4 (amended): an integrity failure is retried like any transient error:
\* with attempts N >= 1 and a context that never ends, a call whose inner
\* operation failed with an integrity error every time made exactly N
\* inner calls and returns the last integrity error, wrapped.
C4_IntegrityRetriedUntilExhaustion ==
  (/\ rPc = "done"
   /\ rAttempts >= 1
   /\ ctxErr = NoErr
   /\ rHist # <<>>
   /\ \A j \in 1..Len(rHist) : IsIntegrityFailure(rHist[j]))
  =>
  /\ rCalls = rAttempts
  /\ rRes = Res(Nil, errRetryFSFn(LastOf(rHist).err))

C4_Witness ==
  /\ rPc = "done"
  /\ rAttempts = 3
  /\ ctxErr = NoErr
  /\ rCalls = 3
  /\ rHist = <<Res(Nil, errChecksumFSMismatch),
               Res(Nil, errGzipFSFn(ErrUnexpectedEOF)),
               Res(Nil, errChecksumFSMismatch)>>
  /\ ErrorsIs(rRes.err, errChecksumFSMismatch)

(***************************************************************************)
(* Properties of chainFS.                                                  *)
(***************************************************************************)
ChainActive == cPc \in {"loop", "done"} /\ cCallNo > 0
ChainSucceeds(i) == cInner[i].err = NoErr
ChainFirstSuccess == CHOOSE j \in 1..cN : ChainSucceeds(j) /\ \A k \in 1..(j - 1) : ~ChainSucceeds(k)
ChainNames(entries) == [k \in 1..Len(entries) |-> entries[k].name]
ChainRange(f) == {f[k] : k \in 1..Len(f)}
StrictlySorted(ns) == \A k \in 1..(Len(ns) - 1) : ns[k] < ns[k + 1]
ChainUnionNames(fss) == UNION {ChainRange(ChainNames(cInner[i].val)) : i \in fss}

\* The members an error contributes to an aggregate: a MultiError its
\* members, any other error itself.
ErrMembers(e) == IF e.tag = "multi" THEN e.sub ELSE IF e = NoErr THEN <<>> ELSE <<e>>

\* The members of the failures of the filesystems listed in order.
RECURSIVE FailuresOf(_)
FailuresOf(order) ==
  IF order = <<>> THEN <<>>
  ELSE ErrMembers(cInner[Head(order)].err) \o FailuresOf(Tail(order))

\* C5: without random order, Open, Stat and ReadFile consult the inner
\* filesystems in configuration order, stop at the first one that
\* succeeds and return its result; no later filesystem is consulted.
C5_ChainConfigurationOrder ==
  (ChainActive /\ ~cRand /\ cOp \in ChainFileOps)
  =>
  /\ cConsulted = [k \in 1..Len(cConsulted) |-> k]
  /\ (cPc = "done" /\ \E i \in 1..cN : ChainSucceeds(i)) =>
       /\ cRes = Res(cInner[ChainFirstSuccess].val, NoErr)
       /\ Len(cConsulted) = ChainFirstSuccess
  /\ (cPc = "done" /\ cRes.err = NoErr) => \E i \in 1..cN : ChainSucceeds(i)

C5_Witness ==
  /\ cPc = "done"
  /\ ~cRand
  /\ cOp = "Open"
  /\ cN = 2
  /\ cInner[1] = Res("d1", NoErr)
  /\ cInner[2] = Res("d2", NoErr)
  /\ cConsulted = <<1>>
  /\ cRes = Res("d1", NoErr)

\* C6: when every inner filesystem fails, Open, Stat and ReadFile return
\* a nil value and an error that wraps the aggregate of the failures of
\* all the filesystems, in the order they were consulted (a failure that
\* is itself a MultiError contributes its members).
C6_ChainAggregatesAllFailures ==
  (/\ ChainActive
   /\ cPc = "done"
   /\ cOp \in ChainFileOps
   /\ \A i \in 1..cN : ~ChainSucceeds(i))
  =>
  /\ Len(cConsulted) = cN
  /\ cRes.val = Nil
  /\ cRes.err.tag = "wrap"
  /\ cRes.err.kind = "fsutil.chainFS"
  /\ ErrMembers(cRes.err.sub[1]) = FailuresOf(cConsulted)
  /\ \A i \in 1..cN : \A k \in 1..Len(ErrMembers(cInner[i].err)) :
       ErrorsIs(cRes.err, ErrMembers(cInner[i].err)[k])

C6_Witness ==
  /\ cPc = "done"
  /\ cOp = "ReadFile"
  /\ cN = 2
  /\ cConsulted = <<1, 2>>
  /\ cInner[1] = Res(Nil, errTransient)
  /\ cInner[2] = Res(Nil, PathError("open", ErrNotExist))
  /\ cRes.err = errChainFSFn(MultiError(<<errTransient, PathError("open", ErrNotExist)>>))

\* C7: when every inner filesystem succeeds, Glob and ReadDir return,
\* without error, the names of the union of the inner results, each name
\* once and in ascending order, whatever the order of consultation.
C7_ChainSortedUnion ==
  (/\ ChainActive
   /\ cPc = "done"
   /\ cOp \in ChainListOps
   /\ \A i \in 1..cN : ChainSucceeds(i))
  =>
  /\ cRes.err = NoErr
  /\ StrictlySorted(ChainNames(cRes.val))
  /\ ChainRange(ChainNames(cRes.val)) = ChainUnionNames(1..cN)

C7_Witness ==
  /\ cPc = "done"
  /\ cOp = "ReadDir"
  /\ cN = 2
  /\ cPerm = <<2, 1>>
  /\ ChainNames(cInner[1].val) = <<3, 1>>
  /\ ChainNames(cInner[2].val) = <<1, 2>>
  /\ ChainSucceeds(1)
  /\ ChainSucceeds(2)
  /\ ChainNames(cRes.val) = <<1, 2, 3>>

\* C8 (as claimed): Glob and ReadDir succeed with the union of the
\* successful inner results as soon as one inner filesystem succeeds, and
\* fail only when every inner filesystem fails.
C8_ChainToleratesPartialFailure ==
  (ChainActive /\ cPc = "done" /\ cOp \in ChainListOps)
  =>
  /\ (\E i \in 1..cN : ChainSucceeds(i)) =>
       /\ cRes.err = NoErr
       /\ ChainRange(ChainNames(cRes.val)) = ChainUnionNames({i \in 1..cN : ChainSucceeds(i)})
  /\ cRes.err # NoErr => \A i \in 1..cN : ~ChainSucceeds(i)

\* C9: in random-order mode a call of Open, Stat or ReadFile consults the
\* inner filesystems in the order of the permutation iter() chose for the
\* call, so that any of them may be the first: each is consulted at most
\* once, and the call fails only after all have been consulted.
C9_ChainRandomPermutation ==
  (ChainActive /\ cRand /\ cOp \in ChainFileOps)
  =>
  /\ cPerm \in Perms(cN)
  /\ cConsulted = SubSeq(cPerm, 1, Len(cConsulted))
  /\ \A a, b \in 1..Len(cConsulted) : cConsulted[a] = cConsulted[b] => a = b
  /\ (cPc = "done" /\ cRes.err # NoErr) => ChainRange(cConsulted) = 1..cN

C11_NoTornCacheRead ==
  \A c \in DOMAIN kPc :
    (kPc[c] = "done" /\ kRes[c].err = NoErr) => kRes[c].val \in Contents

\* C12: two cache protocols that share one cache directory and resolve
\* URIs with different hosts and the same path each return the content of
\* their own backend.
C12_EachProtoServesOwnBackend ==
  (pHost # 0 /\ pRes.err = NoErr) => pRes.val = pBackend[<<pHost, pName>>]

\* C13: a call through a cache filesystem whose configured directory does
\* not exist yet, and whose read of the inner filesystem succeeded,
\* succeeds.
C13_CreatesMissingCacheDir ==
  \A c \in DOMAIN kPc :
    (kPc[c] = "done" /\ ~kDir /\ kBuf[c] # <<>>) => kRes[c].err = NoErr

(***************************************************************************)
(* Properties of checksumFS.                                               *)
(***************************************************************************)
HasChecksum(name) == name.q /\ \E i \in 1..Len(name.pairs) : name.pairs[i].k = "checksum"
OtherParams(name) == {name.pairs[i] : i \in {j \in 1..Len(name.pairs) : name.pairs[j].k # "checksum"}}
ParamsOf(name) == {name.pairs[i] : i \in 1..Len(name.pairs)}
GivenChecksum(name) == ValuesGet(name.pairs, "checksum")
InnerServes(inner) == inner.err = NoErr /\ ~inner.statErr /\ inner.shape # "fails"
\* The call, and for Open the read of the returned file, ended without error.
ReadReachedEOF ==
  /\ sPc = "done"
  /\ sRes.err = NoErr
  /\ sOp = "Open" => sRead.err = NoErr
Delivered == IF sOp = "Open" THEN sRead.val ELSE sRes.val

\* C14: for content D served by the inner filesystem, in both modes,
\* reading path?checksum=digest(D) returns exactly D; reading the path with
\* the digest of other content fails with the checksum-mismatch error, and
\* ReadFile then returns no bytes.
C14_ChecksumRoundTrip ==
  (/\ sPc = "done"
   /\ HasChecksum(sName) /\ ~sName.bad
   /\ GivenChecksum(sName).ok
   /\ GivenChecksum(sName).h # ZeroHash
   /\ InnerServes(sInner))
  =>
  IF GivenChecksum(sName).h = hashSum(sInner.data)
  THEN /\ sRes.err = NoErr
       /\ sOp = "Open" => sRead = Res(sInner.data, NoErr)
       /\ sOp = "ReadFile" => sRes.val = sInner.data
  ELSE /\ sOp = "Open" =>
            \/ ErrorsIs(sRes.err, errChecksumFSMismatch)
            \/ ErrorsIs(sRead.err, errChecksumFSMismatch)
       /\ sOp = "ReadFile" =>
            /\ ErrorsIs(sRes.err, errChecksumFSMismatch)
            /\ sRes.val = <<>>

\* C15: whenever the name given to checksum Open carries the checksum
\* parameter, the name passed to the inner filesystem's Open does not, and
\* every other query parameter is still present.
C15_ChecksumParamStripped ==
  (sPc # "idle" /\ HasChecksum(sName)) =>
    /\ ~HasChecksum(sPassed)
    /\ sPassed.path = sName.path
    /\ OtherParams(sName) \subseteq ParamsOf(sPassed)

\* C16: if the name carries a checksum parameter, whatever its value, a
\* read never reaches a successful EOF unless the digest of the content
\* equals the parameter's value.
C16_VerifiedUnlessParamAbsent ==
  (HasChecksum(sName) /\ ReadReachedEOF) =>
    /\ GivenChecksum(sName).ok
    /\ hashSum(Delivered) = GivenChecksum(sName).h

\* C17: in verify-after-open mode a digest mismatch makes Open return an
\* error and no file, so that no byte is delivered; on a match the returned
\* file yields exactly the bytes that were verified.
C17_VerifyAfterOpen ==
  (/\ sPc # "idle"
   /\ sMode = "AfterOpen"
   /\ sOp = "Open"
   /\ checksumParam(sName).h # ZeroHash
   /\ sInner.err = NoErr)
  =>
  LET h == checksumParam(sName).h
      verified == checksumHashed(InnerReads(sInner.data, sInner.shape), 1)
  IN /\ hashSum(verified) # h =>
          /\ sRes.err # NoErr
          /\ ~sFile.open
          /\ sRead.val = <<>>
     /\ sRes.err = NoErr =>
          /\ sFile.open
          /\ hashSum(verified) = h
          /\ ioReadAll(sFile.reads) = Res(verified, NoErr)
          /\ sPc = "done" => sRead = Res(verified, NoErr)

C17_Witness ==
  /\ sPc = "done"
  /\ sMode = "AfterOpen"
  /\ sOp = "Open"
  /\ checksumParam(sName).h # ZeroHash
  /\ InnerServes(sInner)
  /\ hashSum(sInner.data) # checksumParam(sName).h
  /\ ErrorsIs(sRes.err, errChecksumFSMismatch)
  /\ ~sFile.open

(***************************************************************************)
(* Properties of ipfsFS.                                                   *)
(***************************************************************************)
GatewayServes(i, h) ==
  /\ gGw[i].err = NoErr
  /\ gGw[i].shape # "fails"
  /\ hashSum(gGw[i].data) = h

\* C18: whatever the gateways answer, an IPFS Open of a path that carries
\* a checksum returns an error or a file whose full content has the given
\* digest.
C18_IpfsDeliversOnlyVerified ==
  (gPc = "done" /\ HasChecksum(gName) /\ gRes.err = NoErr) =>
    /\ GivenChecksum(gName).ok
    /\ gRead.err = NoErr
    /\ hashSum(gRead.val) = GivenChecksum(gName).h

\* C19: if at least one gateway serves content matching the checksum, IPFS
\* Open succeeds with that content, whatever the order drawn and whatever
\* the other gateways answer.
C19_IpfsSucceedsIfOneGatewayServes ==
  (/\ gPc = "done"
   /\ validPath("open", gName.path) = NoErr
   /\ HasChecksum(gName) /\ ~gName.bad
   /\ GivenChecksum(gName).ok
   /\ \E i \in 1..NumGateways : GatewayServes(i, GivenChecksum(gName).h))
  =>
  /\ gRes.err = NoErr
  /\ gRead.err = NoErr
  /\ hashSum(gRead.val) = GivenChecksum(gName).h

(***************************************************************************)
(* Properties of gzipFS.                                                   *)
(***************************************************************************)
GzipDecides ==
  \/ ~zCheckExt
  \/ \E k \in 1..Len(zExts) : HasSuffix(zName, <<".">> \o zExts[k])
GzipCallServed ==
  /\ zPc = "done"
  /\ FsValidPath(zName)
  /\ zInner.err = NoErr
GzipYields(bytes) ==
  /\ zRes.err = NoErr
  /\ zOp = "Open" => zRead = Res(bytes, NoErr)
  /\ zOp = "ReadFile" => zRes.val = bytes
GzipFails == zRes.err # NoErr \/ zRead.err # NoErr

\* C20 (as claimed): Open and ReadFile decompress exactly when extension
\* checking is disabled or the name ends with "."+ext for a configured
\* extension, and return the inner bytes unmodified otherwise; a valid
\* gzip stream that is decompressed yields its plaintext and a non-gzip
\* stream that must be decompressed yields an error.
C20_GzipTransparency ==
  GzipCallServed =>
    IF GzipDecides
    THEN /\ IsGzipData(zInner.bytes) => GzipYields(GzPlainOf(zInner.bytes))
         /\ ~HasGzipHeader(zInner.bytes) => GzipFails
    ELSE GzipYields(zInner.bytes)

\* C20 (amended): the same, the plaintext of the valid gzip stream being no
\* longer than the read limit.
C20_GzipTransparencyWithinLimit ==
  GzipCallServed =>
    IF GzipDecides
    THEN /\ (IsGzipData(zInner.bytes) /\ Len(GzPlainOf(zInner.bytes)) <= zLimit) =>
              GzipYields(GzPlainOf(zInner.bytes))
         /\ ~HasGzipHeader(zInner.bytes) => GzipFails
    ELSE GzipYields(zInner.bytes)

C20_Witness ==
  /\ zPc = "done"
  /\ zOp = "Open"
  /\ zCheckExt
  /\ zExts = <<defaultGzipExt>>
  /\ zName = <<"a", ".", "g", "z">>
  /\ zInner.bytes = gzipData(<<1, 2>>)
  /\ zRead = Res(<<1, 2>>, NoErr)

\* C21: for a gzip file opened with read limit L, Read never returns more
\* than L decompressed bytes in total; reading a stream longer than L to the
\* end fails with the unexpected-EOF error, never with a clean EOF on
\* truncated data; a stream of at most L bytes is returned whole, followed
\* by EOF.
C21_GzipReadLimit ==
  (/\ zPc = "done"
   /\ zOp = "Open"
   /\ zRes.err = NoErr
   /\ GzipDecides
   /\ IsGzipData(zInner.bytes))
  =>
  LET plain == GzPlainOf(zInner.bytes)
  IN /\ Len(zRead.val) <= zLimit
     /\ Len(plain) > zLimit => zRead.err = ErrUnexpectedEOF
     /\ Len(plain) <= zLimit => zRead = Res(plain, NoErr)

\* C22: HTTP Open maps the response status: 200 yields a file; 404 yields
\* an error that satisfies the not-exist test; 401, 402 and 403 yield an
\* error that satisfies the permission test; any other status yields an
\* error that satisfies neither test.
HttpResponded == uPc = "done" /\ uUrl # NoURL /\ uStatus # 0
C22_HttpStatusMapping ==
  HttpResponded =>
    CASE uStatus = 200 -> uRes.file /\ uRes.err = NoErr
      [] uStatus = 404 -> ~uRes.file /\ ErrorsIs(uRes.err, ErrNotExist)
      [] uStatus \in {401, 402, 403} -> ~uRes.file /\ ErrorsIs(uRes.err, ErrPermission)
      [] OTHER -> /\ ~uRes.file
                  /\ uRes.err # NoErr
                  /\ ~ErrorsIs(uRes.err, ErrNotExist)
                  /\ ~ErrorsIs(uRes.err, ErrPermission)

C22_Witness ==
  /\ HttpResponded
  /\ uStatus = 402
  /\ uName = <<"a", "/", "b">>
  /\ ErrorsIs(uRes.err, ErrPermission)

\* C23: Mux FileSystem delegates to the protocol produced by the factory
\* registered for the URI's scheme and returns that protocol's result; a
\* URI with an empty scheme is routed to the factory registered for "file";
\* for a scheme with no registered factory it returns the unknown-scheme
\* error without invoking any factory.
MuxRouted == IF mUri.scheme = "" THEN "file" ELSE mUri.scheme
MuxRegistered(scheme) == scheme \in DOMAIN mPs /\ mPs[scheme] # "none"
C23_MuxRoutesByScheme ==
  (mPc = "done" /\ ~mNil) =>
    IF MuxRegistered(MuxRouted)
    THEN /\ mCalls = <<MuxRouted>>
         /\ mPs[MuxRouted] # "fails" =>
              mRes = FileSystem(mPs[MuxRouted], [mUri EXCEPT !.scheme = MuxRouted])
    ELSE /\ mCalls = <<>>
         /\ ErrorsIs(mRes.err, errMuxUnknownScheme)

C23_Witness ==
  /\ mPc = "done"
  /\ ~mNil
  /\ mUri.scheme = ""
  /\ mUri.path = <<"/", "a">>
  /\ mPs["file"] = "file"
  /\ mCalls = <<"file">>
  /\ mRes.err = NoErr
  /\ mRes.path = <<"a">>

\* The path component of a path that FileSystem returned: what precedes the
\* query and the fragment.
PathComponent(path) ==
  SubSeq(path, 1, IndexFrom(path, "#", 1) - 1)
PathBeforeQuery(path) ==
  SubSeq(PathComponent(path), 1, IndexFrom(PathComponent(path), "?", 1) - 1)
UriResolved == uPc # "idle" /\ uFsErr = NoErr

\* C24: for every URI accepted by a protocol (file, http, ipfs, plain-fs,
\* chain), and for every bare string resolved by ParseURI, the path
\* component of the returned path is a valid fs-style relative path: no
\* leading slash, no ".." element, "." for the root.
C24_ReturnedPathIsValid ==
  UriResolved => FsValidPath(PathBeforeQuery(uPath))

\* C25: for every valid http(s) URI u without fragment, splitting u into
\* (base, path) with uriSplit and resolving that path against base the way
\* HTTP Open does yields a URL with the same scheme, host, path and query
\* as u.
C25_HttpSplitJoinRoundTrip ==
  (/\ uPc = "done"
   /\ uProto = "http"
   /\ uVia = "FileSystem"
   /\ uFsErr = NoErr
   /\ uName = uPath)
  =>
  /\ uUrl # NoURL
  /\ uUrl.scheme = uUri.scheme
  /\ uUrl.host = uUri.host
  /\ RequestURI(uUrl) = RequestURI(uUri)

\* C26: an error returned by the retry, cache, gzip, checksum or chain
\* filesystem still satisfies the not-found test (respectively the
\* permission test) whenever the inner filesystem error that caused it
\* satisfies that test, through any depth of stacked adapters.
C26_ErrorTestsSurviveWrapping ==
  wLayers # <<>> =>
    /\ wErr # NoErr
    /\ ErrorsIs(wInner, ErrNotExist) => ErrorsIs(wErr, ErrNotExist)
    /\ ErrorsIs(wInner, ErrPermission) => ErrorsIs(wErr, ErrPermission)

C26_Witness ==
  /\ wLayers = <<"checksum", "chain", "retry">>
  /\ wInner = errHTTPFSRequestErrorFn(ErrNotExist)
  /\ wErr.sub[1].sub[1].tag = "multi"
  /\ ErrorsIs(wErr, ErrNotExist)
  /\ ~ErrorsIs(wErr, ErrPermission)

EquivBothDone == eDone = {"Open", "ReadFile"}
EquivSameOutcome ==
  /\ (eReadFile.err = NoErr) <=> (eOpen.err = NoErr)
  /\ eReadFile.err = NoErr => eReadFile.val = eOpen.val
\* Reading an inner file that opens never fails.
EquivReadsNeverFail ==
  \A i \in 1..Len(eInners) : eInners[i].err = NoErr => eInners[i].shape # "fails"

TryReturned == tPc \in {"after", "done"}
TryNoneTrue == \A j \in 1..Len(tHist) : ~tHist[j].ok
TryCallsStarted == Len(tHist) + tRunning

\* C28: retry.Try with attempts N >= 0 calls f sequentially (never two
\* calls at once) at most N times, stops at the first call that returns
\* true and then returns true, and returns false if no call returned true;
\* with negative attempts it returns only once f returned true or the
\* context is done.
C28_TryCallsUntilTrue ==
  /\ tRunning <= 1
  /\ tAttempts >= 0 => TryCallsStarted <= tAttempts
  /\ \A j \in 1..Len(tHist) : tHist[j].ok =>
       /\ j = Len(tHist)
       /\ tRunning = 0
       /\ TryReturned
       /\ tOk = TRUE
  /\ (TryReturned /\ TryNoneTrue) => tOk = FALSE
  /\ (TryReturned /\ tAttempts < 0) =>
       \/ (tHist # <<>> /\ tHist[Len(tHist)].ok)
       \/ tCtx # NoErr

C28_Witness ==
  /\ tPc = "done"
  /\ tFn = "Try"
  /\ tAttempts = 3
  /\ tCtx = NoErr
  /\ Len(tHist) = 3
  /\ ~tHist[1].ok
  /\ ~tHist[2].ok
  /\ tHist[3].ok
  /\ tRet.ok = TRUE

\* The parts of C29 on the wait, on later iterations and on the helpers
\* with error: a wait in progress when the context is done can end at once,
\* whatever is left on the timer; f is not called in an iteration after the
\* one in which the context ended; TryErr, Try1Err and Try2Err return the
\* context's error.
TryStopsOnContext ==
  /\ (tPc = "delay" /\ tCtx # NoErr) => ENABLED TryDelayEnd
  /\ tCtx # NoErr => TryCallsStarted <= tEndI + 1
  /\ (tPc = "done" /\ tFn \in TryErrFns /\ tCtx # NoErr) => tRet.err = tCtx

\* C29 (as claimed): once the context is done, a wait in progress ends
\* immediately, f is not called in any later iteration, and Try returns
\* false (TryErr, Try1Err and Try2Err return the context's error).
C29_ContextEndsLoop ==
  /\ TryStopsOnContext
  /\ (TryReturned /\ tCtx # NoErr /\ tEndPc # "after") => tOk = FALSE

\* C29 (amended): as claimed, except that Try returns true when the call
\* of f that was in progress when the context ended returns true.
C29_ContextEndsLoopUnlessCallSucceeds ==
  /\ TryStopsOnContext
  /\ (/\ TryReturned
      /\ tCtx # NoErr
      /\ tEndPc # "after"
      /\ ~(tEndPc = "call" /\ tHist[Len(tHist)].ok))
     => tOk = FALSE

C29_Witness ==
  /\ tPc = "done"
  /\ tFn = "Try1Err"
  /\ tAttempts = -1
  /\ tEndPc = "delay"
  /\ tEndI = 1
  /\ tTimer > 0
  /\ Len(tHist) = 2
  /\ tOk = FALSE
  /\ tRet = [ok |-> FALSE, val |-> "p", err |-> DeadlineExceeded]

\* C30 (as claimed): delays occur only between attempts: a run that
\* exhausts its N attempts has waited exactly N-1 times, and a run that
\* ends with a successful attempt has waited once before each attempt but
\* the first.
C30_DelaysOnlyBetweenAttempts ==
  (TryReturned /\ tCtx = NoErr /\ tHist # <<>>) =>
    tDelays = Len(tHist) - 1

(***************************************************************************)
(* Further properties of retryFS.                                          *)
(***************************************************************************)
\* C31 (as claimed): every retryFS operation returns either a non-nil
\* result with a nil error or a non-nil error, never a nil result together
\* with a nil error, for every attempt count and every state of the context.
C31_ResultOrError ==
  rPc = "done" => ~(rRes.val = Nil /\ rRes.err = NoErr)

(***************************************************************************)
(* Properties of checksumFS.Stat, Glob and ReadDir.                        *)
(***************************************************************************)
\* C33 (as claimed): checksum Stat, Glob and ReadDir terminate (the call
\* never exhausts the stack) and return what the inner filesystem returns
\* for the same name or pattern.
C33_ForwardsToInner ==
  /\ fPc # "overflow"
  /\ fPc = "done" => fRes = fInner

(***************************************************************************)
(* Further properties of cacheFS.                                          *)
(***************************************************************************)
\* Caller c's call returns an error in this step, after a cache miss.
CacheFailsNow(c) ==
  /\ kPc[c] \in {"inner", "create", "write"}
  /\ kPc'[c] = "done"
  /\ kRes'[c].err # NoErr

\* C34 (as claimed): when a cache Open or ReadFile returns an error (the
\* inner read failed, or writing the cache entry failed or was only partly
\* done), the call leaves no cache entry behind that a later call would
\* serve as a hit: a failed inner read leaves the cache directory as it
\* was, and after a failed write the entry cannot be opened.
C34_FailedCallLeavesNoEntry ==
  [][\A c \in Callers :
       CacheFailsNow(c) =>
         /\ kPc[c] = "inner" => kDisk' = kDisk
         /\ kPc[c] \in {"create", "write"} => ~cacheOpen(kDir', kDisk')]_vars

(***************************************************************************)
(* Further properties of checksumFS.                                       *)
(***************************************************************************)
\* C35 (as claimed): in verify-after-read mode the digest is computed over
\* exactly the bytes of the inner file and every one of those bytes is
\* delivered to the caller, however the inner file chunks its reads: once
\* the file Open returned was read to its end, the read ended with the
\* mismatch error exactly when the given digest is not the digest of the
\* inner bytes, and otherwise delivered all of them.
C35_DigestOverAllBytes ==
  (/\ sPc = "done"
   /\ sMode = "AfterRead"
   /\ sOp = "Open"
   /\ sRes.err = NoErr
   /\ sInner.err = NoErr
   /\ sInner.shape # "fails"
   /\ HasChecksum(sName) /\ ~sName.bad
   /\ GivenChecksum(sName).ok
   /\ GivenChecksum(sName).h # ZeroHash)
  =>
  IF GivenChecksum(sName).h = hashSum(sInner.data)
  THEN sRead = Res(sInner.data, NoErr)
  ELSE ErrorsIs(sRead.err, errChecksumFSMismatch)

(***************************************************************************)
(* Properties of httpFS.Open's response body.                              *)
(***************************************************************************)
\* C36 (as claimed): whenever HTTP Open returned an error after a response
\* was received (any status but 200), the response body has been closed; a
\* response body is open only while a file returned to the caller is open,
\* and closing that file closes it.
C36_ResponseBodyClosed ==
  /\ (bPc = "returned" /\ bRes.err # NoErr /\ bBody # "none") => bBody = "closed"
  /\ bBody = "open" => (bPc = "returned" /\ bRes.file)
  /\ bPc = "closed" => bBody = "closed"

(***************************************************************************)
(* Properties of the inner files of checksumFS.Open and gzipFS.Open.       *)
(***************************************************************************)
HandlesAllClosed == \A i \in 1..Len(hFiles) : hFiles[i] = "closed"

\* C37 (as claimed): in verify-after-open mode, the inner file opened by
\* checksum Open has been closed by the time Open returns an error, and
\* otherwise at the latest when the file returned to the caller is closed.
C37_AfterOpenClosesInner ==
  (hAdapter = "checksum" /\ hCfg.mode = "AfterOpen") =>
    /\ (hPc = "returned" /\ hErr # NoErr) => HandlesAllClosed
    /\ hPc = "closed" => HandlesAllClosed

\* C38 (as claimed): gzip Open calls the inner filesystem's Open exactly
\* once per call (for a valid name), and every inner file it opened is
\* either handed to the caller, directly or inside the gzip file whose
\* Close closes it, or closed before Open returns.
C38_GzipOpensOnceAndKeepsOrCloses ==
  (hAdapter = "gzip" /\ hPc # "idle") =>
    /\ validPath("open", hCfg.gzName) = NoErr =>
         Len(hFiles) = IF hInner.err = NoErr THEN 1 ELSE 0
    /\ hPc = "returned" =>
         \A i \in 1..Len(hFiles) : i \in hHeld \/ hFiles[i] = "closed"
    /\ hPc = "closed" => HandlesAllClosed

(***************************************************************************)
(* Further properties of gzipFS.                                           *)
(***************************************************************************)
\* The name without its query: what precedes the first "?".
NameBeforeQuery(name) == SubSeq(name, 1, IndexFrom(name, "?", 1) - 1)

\* C39 (as claimed): the gzip decision for a path does not depend on a
\* query parameter attached to it: a call for 'x.gz?checksum=<digest>'
\* gives what the same call for 'x.gz' gives on the same inner bytes.
C39_GzipDecisionIgnoresQuery ==
  GzipCallServed =>
    /\ zOp = "Open" =>
         LET bare == gzipOpen(zCheckExt, zExts, zLimit, NameBeforeQuery(zName), zInner)
         IN /\ zRes.err = bare.err
            /\ zFile = bare.file
    /\ zOp = "ReadFile" =>
         zRes = gzipReadFile(zCheckExt, zExts, zLimit, NameBeforeQuery(zName), zInner).res

(***************************************************************************)
(* Further properties of the mux.                                          *)
(***************************************************************************)
\* C40 (as claimed): a protocol's FileSystem call, in particular the mux's
\* for a URI without scheme, leaves the caller's URI value unchanged.
C40_CallerUriUnchanged ==
  mPc = "done" => mCaller = mUri

(***************************************************************************)
(* Further properties of retry.Try's helpers.                              *)
(***************************************************************************)
\* C32 (as claimed): TryErr, Try1Err and Try2Err return a nil error,
\* together with f's result, whenever the last call of f returned a nil
\* error, even if the context becomes done after that call has returned.
C32_SuccessSurvivesLateContextEnd ==
  (/\ tPc = "done"
   /\ tFn \in TryErrFns
   /\ tHist # <<>>
   /\ tHist[Len(tHist)].err = NoErr
   /\ tEndPc \in {"before", "after"})
  =>
  /\ tRet.err = NoErr
  /\ tFn # "TryErr" => tRet.val = tHist[Len(tHist)].val

====
